---- MODULE Spec2Model ----
(***************************************************************************)
(* Verification model of the algorithms module of handy-ts-tools           *)
(* (src/src/algorithms.ts): PriorityQueue, UnionFind, dijkstra,            *)
(* topologicalSort, bfs and dfs, and the functions on arrays: mergeSort,   *)
(* bubbleSort, quickSelect, kSmallest, binarySearch, combinations and      *)
(* permutations.                                                           *)
(*                                                                         *)
(* Arrays of the source are 0-indexed; sequences here are 1-indexed.  The  *)
(* index arithmetic of the source is kept (0-based) and At/Swap translate  *)
(* an index of the source to a position of the sequence.                   *)
(***************************************************************************)
EXTENDS Integers, Sequences, FiniteSets

VARIABLES
  heap,        \* PriorityQueue.heap
  pqPushed,    \* history: the elements pushed so far, in push order
  pqPopCount,  \* history: how many times pop() returned each pushed element
  pqLast,      \* history: the last call and what it returned
  pqEmptyPop   \* history: pop() was once called on the empty queue

VARIABLES
  parent,      \* UnionFind.parent, a map: its domain is the registered keys
  rank,        \* UnionFind.rank
  ufSets,      \* reference model: the partition kept by merging sets on union
  ufLast       \* history: the last call, its arguments and what it returned

VARIABLES
  djGraph,     \* dijkstra: the graph argument
  djStart,     \* dijkstra: the start argument
  distances,   \* dijkstra: the distances map
  pq,          \* dijkstra: the heap of its PriorityQueue of [node, dist]
  djPops,      \* history: every entry popped, what distances held, what was done
  djPc         \* dijkstra: "loop" in the while loop, "done" once returned

VARIABLES
  tsNodes,     \* topologicalSort: the nodes argument
  tsEdges,     \* topologicalSort: the edges argument
  tsKeys,      \* topologicalSort: insertion order of the keys of graph/inDegree
  tsGraph,     \* topologicalSort: graph
  inDegree,    \* topologicalSort: inDegree
  tsQueue,     \* topologicalSort: queue
  tsResult,    \* topologicalSort: result
  tsEnqueued,  \* history: every node pushed on queue, in push order
  tsPc         \* topologicalSort: "loop", then "returned" or "threw"

VARIABLES
  trGraph,     \* bfs, dfs: the graph argument
  trStart,     \* bfs, dfs: the start argument
  bfsVisited,  \* bfs: visited
  bfsQueue,    \* bfs: queue
  bfsOrder,    \* bfs: order
  bfsEnqueued, \* history: every node pushed on queue, in push order
  bfsPc,       \* bfs: "loop" in the while loop, "done" once returned
  dfsVisited,  \* dfs: visited
  dfsOrder,    \* dfs: order
  dfsStack,    \* dfs: the active calls of visit, innermost last
  dfsPc        \* dfs: "visit" while visit(start) runs, "done" once returned

VARIABLES
  qsItems,     \* quickSelect: the items argument as it was at the call
  qsArr,       \* quickSelect: arr, the items argument itself, reordered in place
  qsK,         \* quickSelect: k
  qsLeft,      \* quickSelect: left
  qsRight,     \* quickSelect: right
  qsCalls,     \* history: how many times the comparator was called
  qsResult,    \* quickSelect: the item returned
  qsPc         \* quickSelect: "call", "loop", then "returned" or "threw"

VARIABLES
  ksItems,     \* kSmallest: the items argument
  ksK,         \* kSmallest: k
  ksResult,    \* kSmallest: the array returned
  ksPc         \* kSmallest: "call", then "returned" or "threw"

VARIABLES
  bsItems,     \* binarySearch: the items argument
  bsTarget,    \* binarySearch: target
  bsLeft,      \* binarySearch: left
  bsRight,     \* binarySearch: right
  bsResult,    \* binarySearch: the index returned
  bsPc         \* binarySearch: "loop", then "returned"

VARIABLES
  cbItems,     \* combinations: the items argument
  cbK,         \* combinations: k
  cbIndices,   \* combinations: indices
  cbResult,    \* combinations: result
  cbPc         \* combinations: "call", "loop", then "returned"

VARIABLES
  pmItems,     \* permutations: the items argument
  pmArr,       \* permutations: arr
  pmC,         \* permutations: c
  pmI,         \* permutations: i
  pmResult,    \* permutations: result
  pmPc         \* permutations: "loop", then "returned"

VARIABLES
  sortItems,   \* mergeSort, bubbleSort: the items argument
  sortResult,  \* mergeSort, bubbleSort: the array returned
  sortPc       \* "ready", then the name of the function that returned

VARIABLES
  obMemory,    \* the array objects: obMemory[ref] is the contents of the array ref
  obItems,     \* history: the contents of the items argument at the call
  obResult,    \* what the call returned: the reference of an array, or a value
  obPc         \* "ready", then the name of the function that was called

VARIABLES
  dsDisposables, \* DisposableStore._disposables, in insertion order
  dsIsDisposed,  \* DisposableStore._isDisposed
  dsInvoked,     \* history: how many times dispose() of each disposable ran
  dsLast,        \* history: the last call, the state it found, what it invoked
  dsDisposeCalls, \* history: how many times dispose() of the store was called
  dsCalls        \* history: how many calls the store received

VARIABLES
  rtOptions,     \* retry: the options argument
  rtRetries,     \* retry: retries
  rtDelayMs,     \* retry: delayMs
  rtAttempt,     \* retry: attempt
  rtLog,         \* history: the calls of operation and of shouldRetry, in order
  rtResult,      \* retry: what its promise resolved or rejected with
  rtPc           \* retry: "call", "loop", "delay", then "resolved" or "rejected"

pqVars == <<heap, pqPushed, pqPopCount, pqLast, pqEmptyPop>>
ufVars == <<parent, rank, ufSets, ufLast>>

djVars == <<djGraph, djStart, distances, pq, djPops, djPc>>
tsVars == <<tsNodes, tsEdges, tsKeys, tsGraph, inDegree, tsQueue, tsResult,
           tsEnqueued, tsPc>>
bfsVars == <<bfsVisited, bfsQueue, bfsOrder, bfsEnqueued, bfsPc>>
dfsVars == <<dfsVisited, dfsOrder, dfsStack, dfsPc>>
trVars == <<trGraph, trStart, bfsVars, dfsVars>>
sortVars == <<sortItems, sortResult, sortPc>>

qsVars == <<qsItems, qsArr, qsK, qsLeft, qsRight, qsCalls, qsResult, qsPc>>
ksVars == <<ksItems, ksK, ksResult, ksPc>>
bsVars == <<bsItems, bsTarget, bsLeft, bsRight, bsResult, bsPc>>
cbVars == <<cbItems, cbK, cbIndices, cbResult, cbPc>>
pmVars == <<pmItems, pmArr, pmC, pmI, pmResult, pmPc>>

\* the variables of the functions on arrays
arVars == <<sortVars, qsVars, ksVars, bsVars, cbVars, pmVars>>

\* the arrays as objects of the caller and of the functions
obVars == <<obMemory, obItems, obResult, obPc>>

\* the variables of the arrays as objects and of what is modelled besides
\* algorithms.ts
dsVars == <<dsDisposables, dsIsDisposed, dsInvoked, dsLast, dsDisposeCalls,
           dsCalls>>

rtVars == <<rtOptions, rtRetries, rtDelayMs, rtAttempt, rtLog, rtResult, rtPc>>

moreVars == <<obVars, dsVars, rtVars>>

vars == <<pqVars, ufVars, djVars, tsVars, trVars, arVars, moreVars>>

\* what a step of one structure or algorithm leaves alone: the others
exceptPq == <<ufVars, djVars, tsVars, trVars, arVars, moreVars>>
exceptUf == <<pqVars, djVars, tsVars, trVars, arVars, moreVars>>
exceptDj == <<pqVars, ufVars, tsVars, trVars, arVars, moreVars>>
exceptTs == <<pqVars, ufVars, djVars, trVars, arVars, moreVars>>
exceptTr == <<pqVars, ufVars, djVars, tsVars, arVars, moreVars>>
exceptAr == <<pqVars, ufVars, djVars, tsVars, trVars, moreVars>>
exceptSort == <<exceptAr, qsVars, ksVars, bsVars, cbVars, pmVars>>
exceptQs == <<exceptAr, sortVars, ksVars, bsVars, cbVars, pmVars>>
exceptKs == <<exceptAr, sortVars, qsVars, bsVars, cbVars, pmVars>>
exceptBs == <<exceptAr, sortVars, qsVars, ksVars, cbVars, pmVars>>
exceptCb == <<exceptAr, sortVars, qsVars, ksVars, bsVars, pmVars>>
exceptPm == <<exceptAr, sortVars, qsVars, ksVars, bsVars, cbVars>>
exceptOb == <<pqVars, ufVars, djVars, tsVars, trVars, arVars, dsVars, rtVars>>
exceptDs == <<pqVars, ufVars, djVars, tsVars, trVars, arVars, obVars, rtVars>>
exceptRt == <<pqVars, ufVars, djVars, tsVars, trVars, arVars, obVars, dsVars>>

(***************************************************************************)
(* Bounds                                                                  *)
(***************************************************************************)
\* how many push calls a run of the priority queue makes
MaxPush == 5
\* priorities are 1..MaxKey; several pushed elements may share a priority
MaxKey == 3
\* the keys passed to a UnionFind are 1..NumKeys
NumKeys == 4
\* how many [neighbor, weight] entries a graph given to dijkstra holds in all
MaxDjEdges == 3
\* how many edges the edges argument of topologicalSort holds
MaxTsEdges == 3
\* how many neighbor entries a graph given to bfs or dfs holds in all
MaxTrEdges == 4
\* how many items an array given to a sort, to quickSelect or to kSmallest
\* holds; the key of an item is in 1..MaxKey, so two items may compare equal
MaxArrayLen == 5
\* how many items a sorted array given to binarySearch holds
MaxSearchLen == 7
\* how many items an array given to combinations holds
MaxCombLen == 4
\* how many items an array given to permutations holds
MaxPermLen == 4
\* how many items the array of a caller holds when the arrays are objects
MaxItems == 4
\* how many calls a DisposableStore receives
MaxStoreCalls == 4
\* the largest retries option given to retry; the smallest is 2 below 0
MaxRetries == 3

(***************************************************************************)
(* PriorityQueue  (algorithms.ts 295-354)                                  *)
(***************************************************************************)
\* what pop() and peek() return on an empty queue (undefined)
Nothing == <<>>

\* The injected comparator.  Elements are pairs <<id, priority>> compared by
\* priority only, so distinct elements can compare equal.  This is also the
\* comparator dijkstra builds its queue with: (a, b) => a[1] - b[1].
comparator(a, b) == a[2] - b[2]

\* arr[i] for a 0-based index i
At(arr, i) == arr[i + 1]

\* [arr[i], arr[j]] = [arr[j], arr[i]]
Swap(arr, i, j) == [arr EXCEPT ![i + 1] = arr[j + 1], ![j + 1] = arr[i + 1]]

\* a bubbleUp that stops after one swap
bubbleUpOneLevel(h, index) ==
  IF index > 0 /\ comparator(At(h, index), At(h, (index - 1) \div 2)) < 0
  THEN Swap(h, index, (index - 1) \div 2)
  ELSE h

RECURSIVE bubbleUp(_, _)
bubbleUp(h, index) ==
  IF index > 0
  THEN LET parentIndex == (index - 1) \div 2
       IN  IF comparator(At(h, index), At(h, parentIndex)) >= 0
           THEN h
           ELSE bubbleUp(Swap(h, index, parentIndex), parentIndex)
  ELSE h

RECURSIVE bubbleDown(_, _)
bubbleDown(h, index) ==
  LET length == Len(h)
      left == index * 2 + 1
      right == left + 1
      s1 == IF left < length /\ comparator(At(h, left), At(h, index)) < 0
            THEN left ELSE index
      smallest == IF right < length /\ comparator(At(h, right), At(h, s1)) < 0
                  THEN right ELSE s1
  IN  IF smallest = index
      THEN h
      ELSE bubbleDown(Swap(h, index, smallest), smallest)

\* a push that drops a value comparing equal to one already queued
pushNoDuplicate(h, value) ==
  IF \E i \in 1..Len(h) : comparator(h[i], value) = 0
  THEN h
  ELSE bubbleUp(Append(h, value), Len(h))

\* push(value): the heap after the call
push(h, value) == bubbleUp(Append(h, value), Len(h))

\* a pop that moves the last element to the root and does not sift it down
popNoSift(h) ==
  IF Len(h) = 0
  THEN [result |-> Nothing, heap |-> h]
  ELSE LET rest == SubSeq(h, 1, Len(h) - 1)
       IN  [result |-> h[1],
            heap |-> IF Len(rest) > 0
                     THEN [rest EXCEPT ![1] = h[Len(h)]]
                     ELSE rest]

\* pop(): what it returns and the heap after the call
pop(h) ==
  IF Len(h) = 0
  THEN [result |-> Nothing, heap |-> h]
  ELSE LET top == h[1]
           end == h[Len(h)]
           rest == SubSeq(h, 1, Len(h) - 1)
       IN  [result |-> top,
            heap |-> IF Len(rest) > 0
                     THEN bubbleDown([rest EXCEPT ![1] = end], 0)
                     ELSE rest]

\* a peek that removes the root it returns
peekRemoves(h) ==
  [result |-> IF Len(h) = 0 THEN Nothing ELSE h[1],
   heap |-> IF Len(h) = 0 THEN h ELSE SubSeq(h, 2, Len(h))]

\* peek(): what it returns and the heap after the call
peek(h) == [result |-> IF Len(h) = 0 THEN Nothing ELSE h[1], heap |-> h]

\* get size()
size(h) == Len(h)

(***************************************************************************)
(* Runs of the PriorityQueue                                               *)
(***************************************************************************)
PQInit ==
  /\ heap = <<>>
  /\ pqPushed = <<>>
  /\ pqPopCount = <<>>
  /\ pqLast = [op |-> "new", result |-> Nothing]
  /\ pqEmptyPop = FALSE

\* pq.push(<<id, key>>); the id is the number of the push call, so every
\* pushed element is a distinct object
Push(key) ==
  /\ Len(pqPushed) < MaxPush
  /\ LET value == <<Len(pqPushed) + 1, key>>
     IN  /\ heap' = push(heap, value)
         /\ pqPushed' = Append(pqPushed, value)
  /\ pqPopCount' = Append(pqPopCount, 0)
  /\ pqLast' = [op |-> "push", result |-> Nothing]
  /\ UNCHANGED <<pqEmptyPop, exceptPq>>

\* pq.pop()
Pop ==
  LET r == pop(heap)
  IN  /\ heap' = r.heap
      /\ pqLast' = [op |-> "pop", result |-> r.result]
      /\ pqPopCount' = IF r.result = Nothing
                       THEN pqPopCount
                       ELSE [pqPopCount EXCEPT ![r.result[1]] = @ + 1]
      /\ pqEmptyPop' = (pqEmptyPop \/ Len(heap) = 0)
      /\ UNCHANGED <<pqPushed, exceptPq>>

\* pq.peek()
Peek ==
  LET r == peek(heap)
  IN  /\ heap' = r.heap
      /\ pqLast' = [op |-> "peek", result |-> r.result]
      /\ UNCHANGED <<pqPushed, pqPopCount, pqEmptyPop, exceptPq>>

PQNext ==
  \/ \E key \in 1..MaxKey : Push(key)
  \/ Pop
  \/ Peek

(***************************************************************************)
(* UnionFind  (algorithms.ts 360-392)                                      *)
(***************************************************************************)
UFKeys == 1..NumKeys

\* Map.set(key, value)
MapSet(m, key, value) ==
  [k \in (DOMAIN m) \cup {key} |-> IF k = key THEN value ELSE m[k]]

\* a find that returns the parent of a registered key without walking to the
\* root
findOneStep(p, r, value) ==
  IF value \notin DOMAIN p
  THEN [result |-> value, parent |-> MapSet(p, value, value),
        rank |-> MapSet(r, value, 0)]
  ELSE [result |-> p[value], parent |-> p, rank |-> r]

\* a find that walks to the root and sets no parent on its way back
RECURSIVE findNoCompression(_, _, _)
findNoCompression(p, r, value) ==
  IF value \notin DOMAIN p
  THEN [result |-> value, parent |-> MapSet(p, value, value),
        rank |-> MapSet(r, value, 0)]
  ELSE IF p[value] # value
  THEN findNoCompression(p, r, p[value])
  ELSE [result |-> value, parent |-> p, rank |-> r]

\* find(value): what it returns and the two maps after the call
RECURSIVE find(_, _, _)
find(p, r, value) ==
  IF value \notin DOMAIN p
  THEN [result |-> value, parent |-> MapSet(p, value, value),
        rank |-> MapSet(r, value, 0)]
  ELSE LET par == p[value]
       IN  IF par # value
           THEN LET f == find(p, r, par)
                    p2 == MapSet(f.parent, value, f.result)
                IN  [result |-> p2[value], parent |-> p2, rank |-> f.rank]
           ELSE [result |-> p[value], parent |-> p, rank |-> r]

\* a union that attaches the operand b (or a) itself, not its root
unionAttachesOperand(p, r, a, b) ==
  LET fa == find(p, r, a)
      fb == find(fa.parent, fa.rank, b)
      rootA == fa.result
      rootB == fb.result
      rankA == fb.rank[rootA]
      rankB == fb.rank[rootB]
  IN  IF rootA = rootB
      THEN [parent |-> fb.parent, rank |-> fb.rank]
      ELSE IF rankA < rankB
      THEN [parent |-> MapSet(fb.parent, a, rootB), rank |-> fb.rank]
      ELSE IF rankA > rankB
      THEN [parent |-> MapSet(fb.parent, b, rootA), rank |-> fb.rank]
      ELSE [parent |-> MapSet(fb.parent, b, rootA),
            rank |-> MapSet(fb.rank, rootA, rankA + 1)]

\* a union that leaves the rank of the surviving root as it is on a tie
unionKeepsRank(p, r, a, b) ==
  LET fa == find(p, r, a)
      fb == find(fa.parent, fa.rank, b)
      rootA == fa.result
      rootB == fb.result
      rankA == fb.rank[rootA]
      rankB == fb.rank[rootB]
  IN  IF rootA = rootB
      THEN [parent |-> fb.parent, rank |-> fb.rank]
      ELSE IF rankA < rankB
      THEN [parent |-> MapSet(fb.parent, rootA, rootB), rank |-> fb.rank]
      ELSE [parent |-> MapSet(fb.parent, rootB, rootA), rank |-> fb.rank]

\* a union that makes b a root of its own when a and b have the same root
unionDetachesOnSameSet(p, r, a, b) ==
  LET fa == find(p, r, a)
      fb == find(fa.parent, fa.rank, b)
      rootA == fa.result
      rootB == fb.result
      rankA == fb.rank[rootA]
      rankB == fb.rank[rootB]
  IN  IF rootA = rootB
      THEN [parent |-> MapSet(fb.parent, b, b), rank |-> fb.rank]
      ELSE IF rankA < rankB
      THEN [parent |-> MapSet(fb.parent, rootA, rootB), rank |-> fb.rank]
      ELSE IF rankA > rankB
      THEN [parent |-> MapSet(fb.parent, rootB, rootA), rank |-> fb.rank]
      ELSE [parent |-> MapSet(fb.parent, rootB, rootA),
            rank |-> MapSet(fb.rank, rootA, rankA + 1)]

\* union(a, b): the two maps after the call
union(p, r, a, b) ==
  LET fa == find(p, r, a)
      fb == find(fa.parent, fa.rank, b)
      rootA == fa.result
      rootB == fb.result
      rankA == fb.rank[rootA]
      rankB == fb.rank[rootB]
  IN  IF rootA = rootB
      THEN [parent |-> fb.parent, rank |-> fb.rank]
      ELSE IF rankA < rankB
      THEN [parent |-> MapSet(fb.parent, rootA, rootB), rank |-> fb.rank]
      ELSE IF rankA > rankB
      THEN [parent |-> MapSet(fb.parent, rootB, rootA), rank |-> fb.rank]
      ELSE [parent |-> MapSet(fb.parent, rootB, rootA),
            rank |-> MapSet(fb.rank, rootA, rankA + 1)]

\* the empty map
EmptyMap == [k \in {} |-> 0]

\* the set of the reference partition that holds x (a key no call has named
\* is alone in its set)
SetOf(sets, x) == IF \E s \in sets : x \in s
                  THEN CHOOSE s \in sets : x \in s
                  ELSE {x}

\* the reference partition after the sets of a and b are merged
Merged(sets, a, b) ==
  {s \in sets : a \notin s /\ b \notin s} \cup {SetOf(sets, a) \cup SetOf(sets, b)}

UFInit ==
  /\ parent = EmptyMap
  /\ rank = EmptyMap
  /\ ufSets = {}
  /\ ufLast = [op |-> "new", a |-> 0, b |-> 0, result |-> 0]

\* uf.find(a)
Find(a) ==
  LET f == find(parent, rank, a)
  IN  /\ parent' = f.parent
      /\ rank' = f.rank
      /\ ufSets' = Merged(ufSets, a, a)
      /\ ufLast' = [op |-> "find", a |-> a, b |-> 0, result |-> f.result]
      /\ UNCHANGED exceptUf

\* uf.union(a, b)
Union(a, b) ==
  LET u == union(parent, rank, a, b)
  IN  /\ parent' = u.parent
      /\ rank' = u.rank
      /\ ufSets' = Merged(ufSets, a, b)
      /\ ufLast' = [op |-> "union", a |-> a, b |-> b, result |-> 0]
      /\ UNCHANGED exceptUf

UFNext ==
  \/ \E a \in UFKeys : Find(a)
  \/ \E a, b \in UFKeys : Union(a, b)

(***************************************************************************)
(* dijkstra  (algorithms.ts 398-415)                                       *)
(*                                                                         *)
(* The graph argument is a map from a node to its array of                 *)
(* [neighbor, weight] pairs.  A node that is no key of the map has the     *)
(* empty array here: the code reads graph.get(node) ?? [].                 *)
(***************************************************************************)
\* the nodes and the (non-negative) weights the input graphs are drawn from
DjNodes == {1, 2, 3}
DjWeights == {0, 1, 2}

\* every sequence over S of length at most n
SeqsUpTo(S, n) == UNION {[1..k -> S] : k \in 0..n}

\* the input graphs: every adjacency map with at most MaxDjEdges
\* [neighbor, weight] entries in all, given as the list of its <<from,
\* neighbor, weight>> entries; the entries of one node keep their order
DjAdjacency(entries) ==
  [n \in DjNodes |->
     LET own == SelectSeq(entries, LAMBDA e : e[1] = n)
     IN  [i \in 1..Len(own) |-> <<own[i][2], own[i][3]>>]]

\* a test that finds no popped entry stale
StaleNever(dists, node, dist) == FALSE

\* dist > (distances.get(node) ?? Infinity)
Stale(dists, node, dist) == node \in DOMAIN dists /\ dist > dists[node]

\* a relaxation test that accepts a distance equal to the one recorded
ImprovesOrEqual(dists, neighbor, nextDist) ==
  neighbor \notin DOMAIN dists \/ nextDist <= dists[neighbor]

\* a relaxation test that accepts only the first distance found for a node
ImprovesFirstOnly(dists, neighbor, nextDist) == neighbor \notin DOMAIN dists

\* nextDist < (distances.get(neighbor) ?? Infinity)
Improves(dists, neighbor, nextDist) ==
  neighbor \notin DOMAIN dists \/ nextDist < dists[neighbor]

\* the for loop over the edges of a node popped with distance dist: the
\* distances map and the queue after the edges from position i on are relaxed
RECURSIVE relaxEdges(_, _, _, _, _)
relaxEdges(dists, q, dist, edges, i) ==
  IF i > Len(edges)
  THEN [distances |-> dists, pq |-> q]
  ELSE LET neighbor == edges[i][1]
           weight == edges[i][2]
           nextDist == dist + weight
       IN  IF Improves(dists, neighbor, nextDist)
           THEN relaxEdges(MapSet(dists, neighbor, nextDist),
                           push(q, <<neighbor, nextDist>>), dist, edges, i + 1)
           ELSE relaxEdges(dists, q, dist, edges, i + 1)

\* the record of a pop of [node, dist]: whether distances had the node and
\* with which distance, and whether the for loop over its edges ran
DjPopped(dists, node, dist, relaxed) ==
  [node |-> node, dist |-> dist, known |-> node \in DOMAIN dists,
   best |-> IF node \in DOMAIN dists THEN dists[node] ELSE 0,
   relaxed |-> relaxed]

\* dijkstra was not called
DjIdle ==
  /\ djGraph = [n \in DjNodes |-> <<>>]
  /\ djStart = 0
  /\ distances = EmptyMap
  /\ pq = <<>>
  /\ djPops = <<>>
  /\ djPc = "idle"

\* dijkstra(graph, start) up to its while loop.  start is node 1: the input
\* graphs are every graph over DjNodes, so each choice of start is a renaming
\* of this one, and the code uses a node only as a map key.
DjInit ==
  /\ \E k \in 0..MaxDjEdges :
       \E entries \in [1..k -> DjNodes \X DjNodes \X DjWeights] :
         djGraph = DjAdjacency(entries)
  /\ djStart = 1
  /\ distances = MapSet(EmptyMap, djStart, 0)
  /\ pq = push(<<>>, <<djStart, 0>>)
  /\ djPops = <<>>
  /\ djPc = "loop"

\* one pass of the while loop
DijkstraStep ==
  /\ djPc = "loop"
  /\ size(pq) > 0
  /\ LET popped == pop(pq)
         node == popped.result[1]
         dist == popped.result[2]
     IN  IF Stale(distances, node, dist)
         THEN /\ pq' = popped.heap
              /\ UNCHANGED distances
              /\ djPops' = Append(djPops, DjPopped(distances, node, dist, FALSE))
         ELSE LET r == relaxEdges(distances, popped.heap, dist, djGraph[node], 1)
              IN  /\ distances' = r.distances
                  /\ pq' = r.pq
                  /\ djPops' = Append(djPops, DjPopped(distances, node, dist, TRUE))
  /\ UNCHANGED <<djGraph, djStart, djPc, exceptDj>>

\* the loop ends and dijkstra returns distances
DijkstraReturn ==
  /\ djPc = "loop"
  /\ ~(size(pq) > 0)
  /\ djPc' = "done"
  /\ UNCHANGED <<djGraph, djStart, distances, pq, djPops, exceptDj>>

DjNext ==
  \/ DijkstraStep
  \/ DijkstraReturn

(***************************************************************************)
(* topologicalSort  (algorithms.ts 44-87)                                  *)
(*                                                                         *)
(* A Map or Set of the source iterates in insertion order.  tsKeys is the  *)
(* insertion order of the keys of graph and inDegree (the code always sets *)
(* a key in both); a Set of neighbors is a sequence without repeats.       *)
(***************************************************************************)
\* the nodes the inputs are drawn from
TsNodes == {1, 2, 3}

\* the nodes argument: every list of fewer items than there are nodes,
\* repeats allowed, and every ordering of all the nodes
TsNodeLists ==
  {l \in SeqsUpTo(TsNodes, Cardinality(TsNodes)) :
     \/ Len(l) < Cardinality(TsNodes)
     \/ \A i, j \in 1..Len(l) : l[i] = l[j] => i = j}

Contains(s, x) == \E i \in 1..Len(s) : s[i] = x

\* Map.set on the insertion order of the keys: a new key goes last
KeysSet(keys, key) == IF Contains(keys, key) THEN keys ELSE Append(keys, key)

\* graph.set(node, new Set()); inDegree.set(node, 0)
tsRegister(st, node) ==
  [keys |-> KeysSet(st.keys, node),
   graph |-> MapSet(st.graph, node, <<>>),
   inDegree |-> MapSet(st.inDegree, node, 0)]

\* the first for loop: every item of nodes from position i on
RECURSIVE tsAddNodes(_, _, _)
tsAddNodes(st, nodes, i) ==
  IF i > Len(nodes) THEN st ELSE tsAddNodes(tsRegister(st, nodes[i]), nodes, i + 1)

\* an edge loop body that counts every edge, repeated or not, in inDegree
tsAddEdgeNoDedup(st, from, to) ==
  LET s1 == IF from \in DOMAIN st.graph THEN st ELSE tsRegister(st, from)
      s2 == IF to \in DOMAIN s1.graph THEN s1 ELSE tsRegister(s1, to)
  IN  [keys |-> s2.keys,
       graph |-> MapSet(s2.graph, from,
                        IF Contains(s2.graph[from], to) THEN s2.graph[from]
                        ELSE Append(s2.graph[from], to)),
       inDegree |-> MapSet(s2.inDegree, to, s2.inDegree[to] + 1)]

\* the body of the second for loop, for the edge [from, to]
tsAddEdge(st, from, to) ==
  LET s1 == IF from \in DOMAIN st.graph THEN st ELSE tsRegister(st, from)
      s2 == IF to \in DOMAIN s1.graph THEN s1 ELSE tsRegister(s1, to)
  IN  IF ~Contains(s2.graph[from], to)
      THEN [keys |-> s2.keys,
            graph |-> MapSet(s2.graph, from, Append(s2.graph[from], to)),
            inDegree |-> MapSet(s2.inDegree, to, s2.inDegree[to] + 1)]
      ELSE s2

\* the second for loop: every edge from position i on
RECURSIVE tsAddEdges(_, _, _)
tsAddEdges(st, edges, i) ==
  IF i > Len(edges) THEN st
  ELSE tsAddEdges(tsAddEdge(st, edges[i][1], edges[i][2]), edges, i + 1)

\* the queue the third for loop builds: the keys of inDegree with degree 0,
\* in insertion order
tsReady(st) == SelectSeq(st.keys, LAMBDA node : st.inDegree[node] = 0)

\* a shift that takes the last item of the queue
shiftLast(q) == [result |-> q[Len(q)], queue |-> SubSeq(q, 1, Len(q) - 1)]

\* queue.shift(): the item removed and the queue after the call
shift(q) == [result |-> Head(q), queue |-> Tail(q)]

\* the for loop over the neighbors of the node shifted, from position i on:
\* inDegree, the queue and the log of queue pushes after it
RECURSIVE tsVisitNeighbors(_, _, _, _, _)
tsVisitNeighbors(deg, q, log, neighbors, i) ==
  IF i > Len(neighbors)
  THEN [inDegree |-> deg, queue |-> q, log |-> log]
  ELSE LET neighbor == neighbors[i]
           nextDegree == deg[neighbor] - 1
           deg2 == MapSet(deg, neighbor, nextDegree)
       IN  IF nextDegree = 0
           THEN tsVisitNeighbors(deg2, Append(q, neighbor), Append(log, neighbor),
                                 neighbors, i + 1)
           ELSE tsVisitNeighbors(deg2, q, log, neighbors, i + 1)

\* topologicalSort was not called
TsIdle ==
  /\ tsNodes = <<>>
  /\ tsEdges = <<>>
  /\ tsKeys = <<>>
  /\ tsGraph = EmptyMap
  /\ inDegree = EmptyMap
  /\ tsQueue = <<>>
  /\ tsEnqueued = <<>>
  /\ tsResult = <<>>
  /\ tsPc = "idle"

\* topologicalSort(nodes, edges) up to its while loop
TsInit ==
  /\ tsNodes \in TsNodeLists
  /\ \E k \in 0..MaxTsEdges : tsEdges \in [1..k -> TsNodes \X TsNodes]
  /\ LET st == tsAddEdges(
                 tsAddNodes([keys |-> <<>>, graph |-> EmptyMap,
                             inDegree |-> EmptyMap], tsNodes, 1),
                 tsEdges, 1)
     IN  /\ tsKeys = st.keys
         /\ tsGraph = st.graph
         /\ inDegree = st.inDegree
         /\ tsQueue = tsReady(st)
         /\ tsEnqueued = tsReady(st)
  /\ tsResult = <<>>
  /\ tsPc = "loop"

\* one pass of the while loop
TopoStep ==
  /\ tsPc = "loop"
  /\ Len(tsQueue) > 0
  /\ LET s == shift(tsQueue)
         r == tsVisitNeighbors(inDegree, s.queue, tsEnqueued, tsGraph[s.result], 1)
     IN  /\ tsResult' = Append(tsResult, s.result)
         /\ inDegree' = r.inDegree
         /\ tsQueue' = r.queue
         /\ tsEnqueued' = r.log
  /\ UNCHANGED <<tsNodes, tsEdges, tsKeys, tsGraph, tsPc, exceptTs>>

\* the loop ends: throw if a node was not emitted, else return result
TopoFinish ==
  /\ tsPc = "loop"
  /\ ~(Len(tsQueue) > 0)
  /\ tsPc' = IF Len(tsResult) # Cardinality(DOMAIN tsGraph) THEN "threw" ELSE "returned"
  /\ UNCHANGED <<tsNodes, tsEdges, tsKeys, tsGraph, inDegree, tsQueue, tsEnqueued,
                 tsResult, exceptTs>>

TsNext ==
  \/ TopoStep
  \/ TopoFinish

(***************************************************************************)
(* bfs and dfs  (algorithms.ts 93-127)                                     *)
(*                                                                         *)
(* The graph argument is a map from a node to the list of its neighbors.   *)
(* Its keys are TrNodes; a key without neighbor entries has the empty      *)
(* list.  The start argument is a key or the node 0, which is no key.      *)
(***************************************************************************)
\* the nodes the input graphs are drawn from
TrNodes == {1, 2, 3, 4}

\* graph.get(node) ?? []
graphGet(graph, node) == IF node \in DOMAIN graph THEN graph[node] ELSE <<>>

\* the input graphs: every adjacency map with at most MaxTrEdges neighbor
\* entries in all, given as the list of its <<from, neighbor>> entries; the
\* entries of one node keep their order (repeats and self-loops included)
TrAdjacency(entries) ==
  [n \in TrNodes |->
     LET own == SelectSeq(entries, LAMBDA e : e[1] = n)
     IN  [i \in 1..Len(own) |-> own[i][2]]]

\* a neighbor loop without the visited test: it pushes every neighbor
bfsPushNeighborsAll(visited, q, log, neighbors, i) ==
  [queue |-> q \o neighbors, log |-> log \o neighbors]

\* a neighbor loop that puts the unvisited neighbors at the front of the queue
bfsPushNeighborsFront(visited, q, log, neighbors, i) ==
  LET fresh == SelectSeq(neighbors, LAMBDA n : n \notin visited)
  IN  [queue |-> fresh \o q, log |-> log \o fresh]

\* bfs: the for loop over the neighbors of a node, from position i on: the
\* queue, and the log of queue pushes, after it
RECURSIVE bfsPushNeighbors(_, _, _, _, _)
bfsPushNeighbors(visited, q, log, neighbors, i) ==
  IF i > Len(neighbors) THEN [queue |-> q, log |-> log]
  ELSE IF neighbors[i] \notin visited
  THEN bfsPushNeighbors(visited, Append(q, neighbors[i]), Append(log, neighbors[i]),
                        neighbors, i + 1)
  ELSE bfsPushNeighbors(visited, q, log, neighbors, i + 1)

\* the start arguments: node 1, or node 0, which is no key of the graph.
\* The input graphs are every graph over TrNodes, so each choice of a key as
\* start is a renaming of node 1, and the code uses a node only as a map key
\* and set member.
TrStarts == {0, 1}

\* the graph and start arguments.  The entries are listed node by node (the
\* keys in ascending order): entries of different keys in another order
\* make the same map.
TrInput ==
  /\ \E k \in 0..MaxTrEdges : \E from \in [1..k -> TrNodes] :
       /\ \A i \in 1..(k - 1) : from[i] <= from[i + 1]
       /\ \E to \in [1..k -> TrNodes] :
            trGraph = TrAdjacency([i \in 1..k |-> <<from[i], to[i]>>])
  /\ trStart \in TrStarts

TrIdle ==
  /\ trGraph = [n \in TrNodes |-> <<>>]
  /\ trStart = 0

\* bfs was not called
BfsIdle ==
  /\ bfsVisited = {}
  /\ bfsQueue = <<>>
  /\ bfsOrder = <<>>
  /\ bfsEnqueued = <<>>
  /\ bfsPc = "idle"

\* bfs(graph, start) up to its while loop
BfsInit ==
  /\ bfsVisited = {}
  /\ bfsQueue = <<trStart>>
  /\ bfsOrder = <<>>
  /\ bfsEnqueued = <<trStart>>
  /\ bfsPc = "loop"

\* one pass of the while loop
BfsStep ==
  /\ bfsPc = "loop"
  /\ Len(bfsQueue) # 0
  /\ LET s == shift(bfsQueue)
         node == s.result
     IN  IF node \in bfsVisited
         THEN /\ bfsQueue' = s.queue
              /\ UNCHANGED <<bfsVisited, bfsOrder, bfsEnqueued>>
         ELSE LET r == bfsPushNeighbors(bfsVisited \cup {node}, s.queue,
                                        bfsEnqueued, graphGet(trGraph, node), 1)
              IN  /\ bfsVisited' = bfsVisited \cup {node}
                  /\ bfsOrder' = Append(bfsOrder, node)
                  /\ bfsQueue' = r.queue
                  /\ bfsEnqueued' = r.log
  /\ UNCHANGED <<trGraph, trStart, bfsPc, dfsVars, exceptTr>>

\* the loop ends and bfs returns order
BfsReturn ==
  /\ bfsPc = "loop"
  /\ Len(bfsQueue) = 0
  /\ bfsPc' = "done"
  /\ UNCHANGED <<trGraph, trStart, bfsVisited, bfsQueue, bfsOrder, bfsEnqueued,
                 dfsVars, exceptTr>>

BfsNext ==
  \/ BfsStep
  \/ BfsReturn

(***************************************************************************)
(* dfs: the recursion of visit is a stack of frames, one per call of visit *)
(* that is past its visited test.  A frame holds the node of the call,     *)
(* done, the number of neighbors whose visit call has returned, and (as    *)
(* history) seen, the visited set right after the node was added to it.    *)
(***************************************************************************)
\* dfs was not called
DfsIdle ==
  /\ dfsVisited = {}
  /\ dfsOrder = <<>>
  /\ dfsStack = <<>>
  /\ dfsPc = "idle"

\* the frame of a call visit(node) that found node unvisited
dfsEnter(visited, node) ==
  [node |-> node, done |-> 0, seen |-> visited \cup {node}]

\* dfs(graph, start): visit(start) has added start and is at its for loop
DfsInit ==
  /\ dfsVisited = {trStart}
  /\ dfsOrder = <<trStart>>
  /\ dfsStack = <<dfsEnter({}, trStart)>>
  /\ dfsPc = "visit"

\* the top frame with one more neighbor done
dfsAdvance(stack) ==
  [stack EXCEPT ![Len(stack)].done = @ + 1]

\* a call that marks and outputs the neighbor but returns without exploring
\* its neighbors
dfsCallShallow(stack, visited, order, neighbor) ==
  IF neighbor \in visited
  THEN [stack |-> dfsAdvance(stack), visited |-> visited, order |-> order]
  ELSE [stack |-> dfsAdvance(stack),
        visited |-> visited \cup {neighbor},
        order |-> Append(order, neighbor)]

\* visit(neighbor) called from the for loop of the top frame: it returns at
\* once if neighbor is visited, else adds it, outputs it and starts its loop
dfsCall(stack, visited, order, neighbor) ==
  IF neighbor \in visited
  THEN [stack |-> dfsAdvance(stack), visited |-> visited, order |-> order]
  ELSE [stack |-> Append(stack, dfsEnter(visited, neighbor)),
        visited |-> visited \cup {neighbor},
        order |-> Append(order, neighbor)]

\* the for loop of the top frame calls visit on its next neighbor
DfsVisit ==
  /\ dfsPc = "visit"
  /\ dfsStack # <<>>
  /\ LET top == dfsStack[Len(dfsStack)]
         neighbors == graphGet(trGraph, top.node)
     IN  /\ top.done < Len(neighbors)
         /\ LET r == dfsCall(dfsStack, dfsVisited, dfsOrder, neighbors[top.done + 1])
            IN  /\ dfsStack' = r.stack
                /\ dfsVisited' = r.visited
                /\ dfsOrder' = r.order
  /\ UNCHANGED <<trGraph, trStart, dfsPc, bfsVars, exceptTr>>

\* the for loop of the top frame is over: its visit call returns to the for
\* loop of the caller
DfsReturn ==
  /\ dfsPc = "visit"
  /\ dfsStack # <<>>
  /\ LET top == dfsStack[Len(dfsStack)]
         rest == SubSeq(dfsStack, 1, Len(dfsStack) - 1)
     IN  /\ top.done = Len(graphGet(trGraph, top.node))
         /\ dfsStack' = IF rest = <<>> THEN rest ELSE dfsAdvance(rest)
  /\ UNCHANGED <<trGraph, trStart, dfsVisited, dfsOrder, dfsPc, bfsVars, exceptTr>>

\* visit(start) has returned and dfs returns order
DfsDone ==
  /\ dfsPc = "visit"
  /\ dfsStack = <<>>
  /\ dfsPc' = "done"
  /\ UNCHANGED <<trGraph, trStart, dfsVisited, dfsOrder, dfsStack, bfsVars, exceptTr>>

DfsNext ==
  \/ DfsVisit
  \/ DfsReturn
  \/ DfsDone

\* a caller that ran bfs(graph, start) calls dfs(graph, start) on the same
\* arguments: visit(start) adds start and is at its for loop
DfsAfterBfs ==
  /\ bfsPc = "done"
  /\ dfsPc = "idle"
  /\ dfsVisited' = {trStart}
  /\ dfsOrder' = <<trStart>>
  /\ dfsStack' = <<dfsEnter({}, trStart)>>
  /\ dfsPc' = "visit"
  /\ UNCHANGED <<trGraph, trStart, bfsVars, exceptTr>>

TraversalNext ==
  \/ BfsStep
  \/ BfsReturn
  \/ DfsAfterBfs
  \/ DfsVisit
  \/ DfsReturn
  \/ DfsDone

(***************************************************************************)
(* mergeSort and bubbleSort  (algorithms.ts 172-217, 283-289, 472-486)     *)
(*                                                                         *)
(* An item of an array is a pair <<index, key>>: index is its position in  *)
(* the input (0-based), so every item is a distinct object, and comparator *)
(* compares by key only.                                                   *)
(***************************************************************************)
\* the input arrays of n items: every choice of keys
ArraysOfLen(n) ==
  {[i \in 1..n |-> <<i - 1, keys[i]>>] : keys \in [1..n -> 1..MaxKey]}

\* arr[i] = value for a 0-based index i
SetAt(arr, i, value) == [arr EXCEPT ![i + 1] = value]

copyArray(items) == [i \in 1..Len(items) |-> items[i]]

\* new Array(n): n empty slots
newArray(n) == [i \in 1..n |-> Nothing]

\* a merge that takes the item of the upper half when the two compare equal
RECURSIVE mergeLoopsStrict(_, _, _, _, _, _, _)
mergeLoopsStrict(arr, buffer, i, j, k, mid, end) ==
  IF i < mid /\ j < end
  THEN IF comparator(At(arr, i), At(arr, j)) < 0
       THEN mergeLoopsStrict(arr, SetAt(buffer, k, At(arr, i)), i + 1, j, k + 1, mid, end)
       ELSE mergeLoopsStrict(arr, SetAt(buffer, k, At(arr, j)), i, j + 1, k + 1, mid, end)
  ELSE IF i < mid
  THEN mergeLoopsStrict(arr, SetAt(buffer, k, At(arr, i)), i + 1, j, k + 1, mid, end)
  ELSE IF j < end
  THEN mergeLoopsStrict(arr, SetAt(buffer, k, At(arr, j)), i, j + 1, k + 1, mid, end)
  ELSE buffer

\* merge: its three while loops.  Once the first has ended, i < mid /\ j < end
\* stays false, so the tests of the second and third decide alone.
RECURSIVE mergeLoops(_, _, _, _, _, _, _)
mergeLoops(arr, buffer, i, j, k, mid, end) ==
  IF i < mid /\ j < end
  THEN IF comparator(At(arr, i), At(arr, j)) <= 0
       THEN mergeLoops(arr, SetAt(buffer, k, At(arr, i)), i + 1, j, k + 1, mid, end)
       ELSE mergeLoops(arr, SetAt(buffer, k, At(arr, j)), i, j + 1, k + 1, mid, end)
  ELSE IF i < mid
  THEN mergeLoops(arr, SetAt(buffer, k, At(arr, i)), i + 1, j, k + 1, mid, end)
  ELSE IF j < end
  THEN mergeLoops(arr, SetAt(buffer, k, At(arr, j)), i, j + 1, k + 1, mid, end)
  ELSE buffer

\* merge(arr, buffer, start, mid, end, comparator): arr and buffer after it
merge(arr, buffer, start, mid, end) ==
  LET filled == mergeLoops(arr, buffer, start, mid, start, mid, end)
  IN  [arr |-> [p \in 1..Len(arr) |->
                  IF start <= p - 1 /\ p - 1 < end THEN filled[p] ELSE arr[p]],
       buffer |-> filled]

\* splitMerge(arr, buffer, start, end, comparator): arr and buffer after it
RECURSIVE splitMerge(_, _, _, _)
splitMerge(arr, buffer, start, end) ==
  IF end - start <= 1
  THEN [arr |-> arr, buffer |-> buffer]
  ELSE LET mid == (start + end) \div 2
           lower == splitMerge(arr, buffer, start, mid)
           upper == splitMerge(lower.arr, lower.buffer, mid, end)
       IN  merge(upper.arr, upper.buffer, start, mid, end)

\* mergeSort(items, comparator): the array it returns
mergeSort(items) ==
  IF Len(items) <= 1
  THEN copyArray(items)
  ELSE splitMerge(copyArray(items), newArray(Len(items)), 0, Len(items)).arr

\* bubbleSort: the inner for loop from j on, for the pass i
RECURSIVE bubblePass(_, _, _, _, _)
bubblePass(arr, swapped, j, i, n) ==
  IF j < n - 1 - i
  THEN IF comparator(At(arr, j), At(arr, j + 1)) > 0
       THEN bubblePass(Swap(arr, j, j + 1), TRUE, j + 1, i, n)
       ELSE bubblePass(arr, swapped, j + 1, i, n)
  ELSE [arr |-> arr, swapped |-> swapped]

\* an outer loop that stops after the first pass that swapped
RECURSIVE bubblePassesStopOnSwap(_, _, _)
bubblePassesStopOnSwap(arr, i, n) ==
  IF i < n - 1
  THEN LET pass == bubblePass(arr, FALSE, 0, i, n)
       IN  IF pass.swapped THEN pass.arr ELSE bubblePassesStopOnSwap(pass.arr, i + 1, n)
  ELSE arr

\* bubbleSort: the outer for loop from i on
RECURSIVE bubblePasses(_, _, _)
bubblePasses(arr, i, n) ==
  IF i < n - 1
  THEN LET pass == bubblePass(arr, FALSE, 0, i, n)
       IN  IF ~pass.swapped THEN pass.arr ELSE bubblePasses(pass.arr, i + 1, n)
  ELSE arr

\* bubbleSort(items, comparator): the array it returns
bubbleSort(items) == bubblePasses(copyArray(items), 0, Len(items))

\* neither sort was called
SortIdle ==
  /\ sortItems = <<>>
  /\ sortResult = <<>>
  /\ sortPc = "idle"

\* the arguments of a call of a sort
SortInit ==
  /\ \E n \in 0..MaxArrayLen : sortItems \in ArraysOfLen(n)
  /\ sortResult = <<>>
  /\ sortPc = "ready"

\* mergeSort(items, comparator) returns
MergeSort ==
  /\ sortPc = "ready"
  /\ sortResult' = mergeSort(sortItems)
  /\ sortPc' = "mergeSort"
  /\ UNCHANGED <<sortItems, exceptSort>>

\* bubbleSort(items, comparator) returns
BubbleSort ==
  /\ sortPc = "ready"
  /\ sortResult' = bubbleSort(sortItems)
  /\ sortPc' = "bubbleSort"
  /\ UNCHANGED <<sortItems, exceptSort>>

SortNext ==
  \/ MergeSort
  \/ BubbleSort

(***************************************************************************)
(* quickSelect  (algorithms.ts 133-166)                                    *)
(***************************************************************************)
\* partition: the for loop from i on; calls counts the comparator calls
RECURSIVE partitionLoop(_, _, _, _, _, _)
partitionLoop(arr, pivotValue, storeIndex, i, hi, calls) ==
  IF i < hi
  THEN IF comparator(At(arr, i), pivotValue) < 0
       THEN partitionLoop(Swap(arr, storeIndex, i), pivotValue, storeIndex + 1,
                          i + 1, hi, calls + 1)
       ELSE partitionLoop(arr, pivotValue, storeIndex, i + 1, hi, calls + 1)
  ELSE [arr |-> arr, storeIndex |-> storeIndex, calls |-> calls]

\* a partition that leaves the pivot at hi
partitionPivotLeft(arr, lo, hi, pivotIndex, calls) ==
  partitionLoop(Swap(arr, pivotIndex, hi), At(arr, pivotIndex), lo, lo, hi, calls)

\* partition(lo, hi, pivotIndex): arr after it and the index it returns
partition(arr, lo, hi, pivotIndex, calls) ==
  LET pivotValue == At(arr, pivotIndex)
      looped == partitionLoop(Swap(arr, pivotIndex, hi), pivotValue, lo, lo, hi, calls)
  IN  [arr |-> Swap(looped.arr, hi, looped.storeIndex),
       storeIndex |-> looped.storeIndex,
       calls |-> looped.calls]

\* the range check that opens quickSelect
qsOutOfRange(items, k) == k < 0 \/ k >= Len(items)

\* an entry that makes a partition pass over the items before its range check
quickSelectEnterLate(items, k) ==
  LET p == IF Len(items) > 0
           THEN partition(items, 0, Len(items) - 1, (Len(items) - 1) \div 2, 0)
           ELSE [arr |-> items, storeIndex |-> 0, calls |-> 0]
  IN  [pc |-> IF qsOutOfRange(items, k) THEN "threw" ELSE "loop",
       arr |-> p.arr, left |-> 0, right |-> Len(items) - 1,
       result |-> Nothing, calls |-> p.calls]

\* quickSelect up to its while loop: it throws the RangeError or sets arr,
\* left and right
quickSelectEnter(items, k) ==
  [pc |-> IF qsOutOfRange(items, k) THEN "threw" ELSE "loop",
   arr |-> items, left |-> 0, right |-> Len(items) - 1,
   result |-> Nothing, calls |-> 0]

\* the test of the while loop and one pass of its body, or the return after
\* the loop
quickSelectPass(arr, k, left, right, calls) ==
  IF left <= right
  THEN LET p == partition(arr, left, right, (left + right) \div 2, calls)
           pivotIndex == p.storeIndex
       IN  IF pivotIndex = k
           THEN [pc |-> "returned", arr |-> p.arr, left |-> left, right |-> right,
                 result |-> At(p.arr, pivotIndex), calls |-> p.calls]
           ELSE IF pivotIndex < k
           THEN [pc |-> "loop", arr |-> p.arr, left |-> pivotIndex + 1,
                 right |-> right, result |-> Nothing, calls |-> p.calls]
           ELSE [pc |-> "loop", arr |-> p.arr, left |-> left,
                 right |-> pivotIndex - 1, result |-> Nothing, calls |-> p.calls]
  ELSE [pc |-> "returned", arr |-> arr, left |-> left, right |-> right,
        result |-> At(arr, k), calls |-> calls]

\* quickSelect was not called
QsIdle ==
  /\ qsItems = <<>>
  /\ qsArr = <<>>
  /\ qsK = 0
  /\ qsLeft = 0
  /\ qsRight = 0
  /\ qsCalls = 0
  /\ qsResult = Nothing
  /\ qsPc = "idle"

\* the call quickSelect(items, k, comparator); k is any index of the items
\* or up to two places before the first or after the last
QsInit ==
  /\ \E n \in 0..MaxArrayLen :
       /\ qsItems \in ArraysOfLen(n)
       /\ qsK \in (0 - 2)..(n + 1)
  /\ qsArr = qsItems
  /\ qsLeft = 0
  /\ qsRight = 0
  /\ qsCalls = 0
  /\ qsResult = Nothing
  /\ qsPc = "call"

QuickSelectEnter ==
  /\ qsPc = "call"
  /\ LET r == quickSelectEnter(qsArr, qsK)
     IN  /\ qsPc' = r.pc
         /\ qsArr' = r.arr
         /\ qsLeft' = r.left
         /\ qsRight' = r.right
         /\ qsResult' = r.result
         /\ qsCalls' = r.calls
  /\ UNCHANGED <<qsItems, qsK, exceptQs>>

QuickSelectPass ==
  /\ qsPc = "loop"
  /\ LET r == quickSelectPass(qsArr, qsK, qsLeft, qsRight, qsCalls)
     IN  /\ qsPc' = r.pc
         /\ qsArr' = r.arr
         /\ qsLeft' = r.left
         /\ qsRight' = r.right
         /\ qsResult' = r.result
         /\ qsCalls' = r.calls
  /\ UNCHANGED <<qsItems, qsK, exceptQs>>

QsNext ==
  \/ QuickSelectEnter
  \/ QuickSelectPass

(***************************************************************************)
(* kSmallest  (algorithms.ts 223-235)                                      *)
(***************************************************************************)
\* quickSelect: its while loop, pass after pass, up to the return
RECURSIVE quickSelectLoop(_, _, _, _, _)
quickSelectLoop(arr, k, left, right, calls) ==
  LET r == quickSelectPass(arr, k, left, right, calls)
  IN  IF r.pc = "loop"
      THEN quickSelectLoop(r.arr, k, r.left, r.right, r.calls)
      ELSE r

\* quickSelect(items, k, comparator): how it ends (pc), what it returns and
\* the items after it
quickSelect(items, k) ==
  LET entered == quickSelectEnter(items, k)
  IN  IF entered.pc = "loop"
      THEN quickSelectLoop(entered.arr, k, entered.left, entered.right, entered.calls)
      ELSE entered

\* a kSmallest that returns the k leading items as quickSelect left them
kSmallestUnsorted(items, k) ==
  IF k <= 0 THEN [pc |-> "returned", result |-> <<>>]
  ELSE LET arr == copyArray(items)
       IN  IF k >= Len(arr)
           THEN [pc |-> "returned", result |-> mergeSort(arr)]
           ELSE LET selected == quickSelect(arr, k - 1)
                IN  [pc |-> "returned",
                     result |-> [i \in 1..k |-> selected.arr[i]]]

\* a kSmallest without the test k >= arr.length
kSmallestUnclamped(items, k) ==
  IF k <= 0 THEN [pc |-> "returned", result |-> <<>>]
  ELSE LET arr == copyArray(items)
           selected == quickSelect(arr, k - 1)
           subset == [i \in 1..k |-> selected.arr[i]]
       IN  IF selected.pc = "threw"
           THEN [pc |-> "threw", result |-> <<>>]
           ELSE [pc |-> "returned", result |-> mergeSort(subset)]

\* kSmallest(items, k, comparator): how it ends and the array it returns
kSmallest(items, k) ==
  IF k <= 0 THEN [pc |-> "returned", result |-> <<>>]
  ELSE LET arr == copyArray(items)
       IN  IF k >= Len(arr)
           THEN [pc |-> "returned", result |-> mergeSort(arr)]
           ELSE LET selected == quickSelect(arr, k - 1)
                    subset == [i \in 1..k |-> selected.arr[i]]
                IN  IF selected.pc = "threw"
                    THEN [pc |-> "threw", result |-> <<>>]
                    ELSE [pc |-> "returned", result |-> mergeSort(subset)]

\* an input of four items with the keys 9, 1, 5, 2
KsExample == <<(<<0, 9>>), (<<1, 1>>), (<<2, 5>>), (<<3, 2>>)>>

\* kSmallest was not called
KsIdle ==
  /\ ksItems = <<>>
  /\ ksK = 0
  /\ ksResult = <<>>
  /\ ksPc = "idle"

\* the call kSmallest(items, k, comparator): k is from two below 0 to two
\* above the number of items; or the example items with k = 0, 2 or 10
KsInit ==
  /\ \/ \E n \in 0..MaxArrayLen :
          /\ ksItems \in ArraysOfLen(n)
          /\ ksK \in (0 - 2)..(n + 2)
     \/ /\ ksItems = KsExample
        /\ ksK \in {0, 2, 10}
  /\ ksResult = <<>>
  /\ ksPc = "call"

KSmallest ==
  /\ ksPc = "call"
  /\ LET r == kSmallest(ksItems, ksK)
     IN  /\ ksPc' = r.pc
         /\ ksResult' = r.result
  /\ UNCHANGED <<ksItems, ksK, exceptKs>>

KsNext == KSmallest

(***************************************************************************)
(* binarySearch  (algorithms.ts 5-21)                                      *)
(***************************************************************************)
\* a pass that keeps mid in the range when the item at mid is less
binarySearchPassKeepMid(items, target, left, right) ==
  IF left <= right
  THEN LET mid == (left + right) \div 2
           compare == comparator(At(items, mid), target)
       IN  IF compare = 0
           THEN [pc |-> "returned", result |-> mid, left |-> left, right |-> right]
           ELSE IF compare < 0
           THEN [pc |-> "loop", result |-> Nothing, left |-> mid, right |-> right]
           ELSE [pc |-> "loop", result |-> Nothing, left |-> left, right |-> mid - 1]
  ELSE [pc |-> "returned", result |-> 0 - 1, left |-> left, right |-> right]

\* the test of the while loop and one pass of its body, or the return after
\* the loop
binarySearchPass(items, target, left, right) ==
  IF left <= right
  THEN LET mid == (left + right) \div 2
           compare == comparator(At(items, mid), target)
       IN  IF compare = 0
           THEN [pc |-> "returned", result |-> mid, left |-> left, right |-> right]
           ELSE IF compare < 0
           THEN [pc |-> "loop", result |-> Nothing, left |-> mid + 1, right |-> right]
           ELSE [pc |-> "loop", result |-> Nothing, left |-> left, right |-> mid - 1]
  ELSE [pc |-> "returned", result |-> 0 - 1, left |-> left, right |-> right]

\* binarySearch was not called
BsIdle ==
  /\ bsItems = <<>>
  /\ bsTarget = Nothing
  /\ bsLeft = 0
  /\ bsRight = 0
  /\ bsResult = Nothing
  /\ bsPc = "idle"

\* the call binarySearch(items, target, comparator) up to the while loop:
\* the items are in ascending order, as the function requires, and target is
\* an object of its own with a key of the items, a key between, below or
\* above them
BsInit ==
  /\ \E n \in 0..MaxSearchLen : \E keys \in [1..n -> 1..MaxKey] :
       /\ \A i \in 1..(n - 1) : keys[i] <= keys[i + 1]
       /\ bsItems = [i \in 1..n |-> <<i - 1, keys[i]>>]
  /\ \E key \in 0..(MaxKey + 1) : bsTarget = <<0 - 1, key>>
  /\ bsLeft = 0
  /\ bsRight = Len(bsItems) - 1
  /\ bsResult = Nothing
  /\ bsPc = "loop"

BinarySearchPass ==
  /\ bsPc = "loop"
  /\ LET r == binarySearchPass(bsItems, bsTarget, bsLeft, bsRight)
     IN  /\ bsPc' = r.pc
         /\ bsResult' = r.result
         /\ bsLeft' = r.left
         /\ bsRight' = r.right
  /\ UNCHANGED <<bsItems, bsTarget, exceptBs>>

BsNext == BinarySearchPass

(***************************************************************************)
(* combinations  (algorithms.ts 421-439)                                   *)
(***************************************************************************)
\* Array.from({ length: k }, (_, i) => i)
cbFirstIndices(k) == [p \in 1..k |-> p - 1]

\* indices.map((index) => items[index])
cbPick(items, indices) == [p \in 1..Len(indices) |-> At(items, indices[p])]

\* while (i >= 0 && indices[i] === items.length - k + i) i -= 1
RECURSIVE cbRightmost(_, _, _, _)
cbRightmost(indices, i, n, k) ==
  IF i >= 0 /\ At(indices, i) = n - k + i
  THEN cbRightmost(indices, i - 1, n, k)
  ELSE i

\* an advance that leaves the trailing indices as they are
cbResetNone(indices, j, k) == indices

\* for (let j = i + 1; j < k; j++) indices[j] = indices[j - 1] + 1
RECURSIVE cbReset(_, _, _)
cbReset(indices, j, k) ==
  IF j < k
  THEN cbReset(SetAt(indices, j, At(indices, j - 1) + 1), j + 1, k)
  ELSE indices

\* combinations up to its while loop
combinationsEnter(items, k) ==
  IF k <= 0 THEN [pc |-> "returned", indices |-> <<>>, result |-> <<(<<>>)>>]
  ELSE IF k > Len(items) THEN [pc |-> "returned", indices |-> <<>>, result |-> <<>>]
  ELSE [pc |-> "loop", indices |-> cbFirstIndices(k), result |-> <<>>]

\* one pass of the while loop
combinationsPass(items, k, indices, result) ==
  LET pushed == Append(result, cbPick(items, indices))
      i == cbRightmost(indices, k - 1, Len(items), k)
  IN  IF i < 0
      THEN [pc |-> "returned", indices |-> indices, result |-> pushed]
      ELSE [pc |-> "loop",
            indices |-> cbReset(SetAt(indices, i, At(indices, i) + 1), i + 1, k),
            result |-> pushed]

\* combinations was not called
CbIdle ==
  /\ cbItems = <<>>
  /\ cbK = 0
  /\ cbIndices = <<>>
  /\ cbResult = <<>>
  /\ cbPc = "idle"

\* the call combinations(items, k): k is from two below 0 to two above the
\* number of items
CbInit ==
  /\ \E n \in 0..MaxCombLen :
       /\ cbItems \in ArraysOfLen(n)
       /\ cbK \in (0 - 2)..(n + 2)
  /\ cbIndices = <<>>
  /\ cbResult = <<>>
  /\ cbPc = "call"

CombinationsEnter ==
  /\ cbPc = "call"
  /\ LET r == combinationsEnter(cbItems, cbK)
     IN  /\ cbPc' = r.pc
         /\ cbIndices' = r.indices
         /\ cbResult' = r.result
  /\ UNCHANGED <<cbItems, cbK, exceptCb>>

CombinationsPass ==
  /\ cbPc = "loop"
  /\ LET r == combinationsPass(cbItems, cbK, cbIndices, cbResult)
     IN  /\ cbPc' = r.pc
         /\ cbIndices' = r.indices
         /\ cbResult' = r.result
  /\ UNCHANGED <<cbItems, cbK, exceptCb>>

CbNext ==
  \/ CombinationsEnter
  \/ CombinationsPass

\* the calls kSmallest(items, k, comparator) and combinations(items, k) on
\* the same items and k
KsCbInit ==
  /\ \E n \in 0..MaxCombLen :
       /\ ksItems \in ArraysOfLen(n)
       /\ ksK \in (0 - 2)..(n + 2)
  /\ ksResult = <<>>
  /\ ksPc = "call"
  /\ cbItems = ksItems
  /\ cbK = ksK
  /\ cbIndices = <<>>
  /\ cbResult = <<>>
  /\ cbPc = "call"

\* a caller that passes the same items and k to kSmallest and to
\* combinations; the two calls run in any order
KsCbNext ==
  \/ KSmallest
  \/ CombinationsEnter
  \/ CombinationsPass

(***************************************************************************)
(* permutations  (algorithms.ts 445-466)                                   *)
(***************************************************************************)
\* a pass that swaps with arr[0] whatever the parity of i
permutationsPassNoParity(arr, c, i, result) ==
  IF i < Len(arr)
  THEN IF At(c, i) < i
       THEN LET swapped == Swap(arr, 0, i)
            IN  [pc |-> "loop", arr |-> swapped, c |-> SetAt(c, i, At(c, i) + 1),
                 i |-> 0, result |-> Append(result, swapped)]
       ELSE [pc |-> "loop", arr |-> arr, c |-> SetAt(c, i, 0),
             i |-> i + 1, result |-> result]
  ELSE [pc |-> "returned", arr |-> arr, c |-> c, i |-> i, result |-> result]

\* the test of the while loop and one pass of its body, or the return after
\* the loop
permutationsPass(arr, c, i, result) ==
  IF i < Len(arr)
  THEN IF At(c, i) < i
       THEN LET swapped == IF i % 2 = 0
                           THEN Swap(arr, 0, i)
                           ELSE Swap(arr, At(c, i), i)
            IN  [pc |-> "loop", arr |-> swapped, c |-> SetAt(c, i, At(c, i) + 1),
                 i |-> 0, result |-> Append(result, swapped)]
       ELSE [pc |-> "loop", arr |-> arr, c |-> SetAt(c, i, 0),
             i |-> i + 1, result |-> result]
  ELSE [pc |-> "returned", arr |-> arr, c |-> c, i |-> i, result |-> result]

\* permutations was not called
PmIdle ==
  /\ pmItems = <<>>
  /\ pmArr = <<>>
  /\ pmC = <<>>
  /\ pmI = 0
  /\ pmResult = <<>>
  /\ pmPc = "idle"

\* the call permutations(items) up to the while loop.  The items are
\* pairwise distinct values: n items with the keys 1..n in any order.
PmInit ==
  /\ \E n \in 0..MaxPermLen : \E keys \in [1..n -> 1..n] :
       /\ \A p, q \in 1..n : p # q => keys[p] # keys[q]
       /\ pmItems = [p \in 1..n |-> <<p - 1, keys[p]>>]
  /\ pmArr = copyArray(pmItems)
  /\ pmC = [p \in 1..Len(pmItems) |-> 0]
  /\ pmI = 0
  /\ pmResult = <<pmArr>>
  /\ pmPc = "loop"

PermutationsPass ==
  /\ pmPc = "loop"
  /\ LET r == permutationsPass(pmArr, pmC, pmI, pmResult)
     IN  /\ pmPc' = r.pc
         /\ pmArr' = r.arr
         /\ pmC' = r.c
         /\ pmI' = r.i
         /\ pmResult' = r.result
  /\ UNCHANGED <<pmItems, exceptPm>>

PmNext == PermutationsPass

\* no function on arrays was called
ArIdle == SortIdle /\ QsIdle /\ KsIdle /\ BsIdle /\ CbIdle /\ PmIdle

\* the data structures and the graph algorithms are not in use
OthersIdle == PQInit /\ UFInit /\ DjIdle /\ TsIdle /\ TrIdle /\ BfsIdle /\ DfsIdle

(***************************************************************************)
(* The arrays as objects  (algorithms.ts 5-21, 133-235, 283-289, 421-486)  *)
(*                                                                         *)
(* An array of the source is an object: two names may denote the same      *)
(* array, and a write through one is seen through the other.  obMemory is  *)
(* the sequence of the arrays allocated so far and a reference is a        *)
(* position of it.  The array of the caller is the first object.           *)
(***************************************************************************)
\* the reference of the array the caller passes as items
itemsRef == 1

\* a new array with the given contents: the memory after it and its reference
alloc(mem, contents) ==
  [mem |-> Append(mem, SubSeq(contents, 1, Len(contents))), ref |-> Len(mem) + 1]

\* arr[..] = .. for every index: the array ref holds contents
store(mem, ref, contents) == [mem EXCEPT ![ref] = contents]

\* a copyArray that returns its argument
copyArrayAlias(mem, items) == [mem |-> mem, ref |-> items]

\* copyArray(items) on objects: new Array(items.length), filled from items
copyArrayObject(mem, items) == alloc(mem, copyArray(mem[items]))

\* mergeSort(items, comparator) on objects: the memory after it and the
\* reference it returns
mergeSortObject(mem, items) ==
  IF Len(mem[items]) <= 1
  THEN copyArrayObject(mem, items)
  ELSE LET copied == copyArrayObject(mem, items)
           arr == copied.ref
           n == Len(copied.mem[arr])
           buffer == alloc(copied.mem, newArray(n))
           merged == splitMerge(buffer.mem[arr], buffer.mem[buffer.ref], 0, n)
       IN  [mem |-> store(store(buffer.mem, buffer.ref, merged.buffer),
                          arr, merged.arr),
            ref |-> arr]

\* bubbleSort(items, comparator) on objects
bubbleSortObject(mem, items) ==
  LET copied == copyArrayObject(mem, items)
      arr == copied.ref
      n == Len(copied.mem[arr])
  IN  [mem |-> store(copied.mem, arr, bubblePasses(copied.mem[arr], 0, n)),
       ref |-> arr]

\* quickSelect(items, k, comparator) on objects: const arr = items, so the
\* swaps of partition are writes to the array of the caller
quickSelectObject(mem, items, k) ==
  LET r == quickSelect(mem[items], k)
  IN  [mem |-> store(mem, items, r.arr), pc |-> r.pc, result |-> r.result]

\* kSmallest(items, k, comparator) on objects; copied, selected and subset
\* are the values of its three const declarations, each computed once
kSmallestObject(mem, items, k) ==
  IF k <= 0 THEN alloc(mem, <<>>)
  ELSE CHOOSE returned \in
         {IF k >= Len(copied.mem[copied.ref])
          THEN mergeSortObject(copied.mem, copied.ref)
          ELSE CHOOSE sorted \in
                 {CHOOSE made \in
                    {mergeSortObject(subset.mem, subset.ref) :
                       subset \in {alloc(selected.mem,
                                         [i \in 1..k |->
                                            selected.mem[copied.ref][i]])}} :
                    TRUE :
                  selected \in {quickSelectObject(copied.mem, copied.ref,
                                                   k - 1)}} : TRUE :
          copied \in {copyArrayObject(mem, items)}} : TRUE

\* binarySearch: its while loop, pass after pass, up to the return
RECURSIVE binarySearchLoop(_, _, _, _)
binarySearchLoop(items, target, left, right) ==
  LET r == binarySearchPass(items, target, left, right)
  IN  IF r.pc = "loop"
      THEN binarySearchLoop(items, target, r.left, r.right)
      ELSE r.result

\* binarySearch(items, target, comparator) on objects: it reads items and
\* writes to no array
binarySearchObject(mem, items, target) ==
  [mem |-> mem,
   result |-> binarySearchLoop(mem[items], target, 0, Len(mem[items]) - 1)]

\* combinations: its while loop, pass after pass, up to the return
RECURSIVE combinationsLoop(_, _, _, _)
combinationsLoop(items, k, indices, result) ==
  LET r == combinationsPass(items, k, indices, result)
  IN  IF r.pc = "loop"
      THEN combinationsLoop(items, k, r.indices, r.result)
      ELSE r.result

\* the arrays from the i-th on as new objects: the memory after it and their
\* references
RECURSIVE allocAll(_, _, _, _)
allocAll(mem, arrays, i, refs) ==
  IF i <= Len(arrays)
  THEN LET made == alloc(mem, arrays[i])
       IN  allocAll(made.mem, arrays, i + 1, Append(refs, made.ref))
  ELSE [mem |-> mem, refs |-> refs]

\* an array of arrays as new objects: every inner array, then the outer one,
\* which holds their references
allocNested(mem, arrays) ==
  LET inner == allocAll(mem, arrays, 1, <<>>)
  IN  alloc(inner.mem, inner.refs)

\* combinations(items, k) on objects: result and every indices.map(..) are
\* new arrays, and items is read only
combinationsObject(mem, items, k) ==
  LET entered == combinationsEnter(mem[items], k)
  IN  allocNested(mem, IF entered.pc = "loop"
                       THEN combinationsLoop(mem[items], k, entered.indices,
                                             entered.result)
                       ELSE entered.result)

\* permutations: its while loop, pass after pass, up to the return
RECURSIVE permutationsLoop(_, _, _, _)
permutationsLoop(arr, c, i, result) ==
  LET r == permutationsPass(arr, c, i, result)
  IN  IF r.pc = "loop"
      THEN permutationsLoop(r.arr, r.c, r.i, r.result)
      ELSE r

\* permutations(items) on objects: the swaps are writes to arr, the array
\* copyArray returned; result and every arr.slice() are new arrays
permutationsObject(mem, items) ==
  LET copied == copyArrayObject(mem, items)
      arr == copied.ref
      first == copied.mem[arr]
      looped == permutationsLoop(first, [p \in 1..Len(first) |-> 0], 0,
                                 <<first>>)
  IN  allocNested(store(copied.mem, arr, looped.arr), looped.result)

\* no function was called on an array object
ObIdle ==
  /\ obMemory = <<>>
  /\ obItems = <<>>
  /\ obResult = Nothing
  /\ obPc = "idle"

\* a caller holds one array of up to MaxItems items
ObInit ==
  /\ \E n \in 0..MaxItems : obItems \in ArraysOfLen(n)
  /\ obMemory = <<obItems>>
  /\ obResult = Nothing
  /\ obPc = "ready"

\* the caller calls mergeSort(items, comparator)
MergeSortCall ==
  /\ obPc = "ready"
  /\ LET r == mergeSortObject(obMemory, itemsRef)
     IN  /\ obMemory' = r.mem
         /\ obResult' = r.ref
  /\ obPc' = "mergeSort"
  /\ UNCHANGED <<obItems, exceptOb>>

\* the caller calls bubbleSort(items, comparator)
BubbleSortCall ==
  /\ obPc = "ready"
  /\ LET r == bubbleSortObject(obMemory, itemsRef)
     IN  /\ obMemory' = r.mem
         /\ obResult' = r.ref
  /\ obPc' = "bubbleSort"
  /\ UNCHANGED <<obItems, exceptOb>>

\* the caller calls quickSelect(items, k, comparator) with a k in the range
\* or next to it
QuickSelectCall ==
  /\ obPc = "ready"
  /\ \E k \in (0 - 1)..Len(obItems) :
       LET r == quickSelectObject(obMemory, itemsRef, k)
       IN  /\ obMemory' = r.mem
           /\ obResult' = r.result
  /\ obPc' = "quickSelect"
  /\ UNCHANGED <<obItems, exceptOb>>

\* the caller calls kSmallest(items, k, comparator)
KSmallestCall ==
  /\ obPc = "ready"
  /\ \E k \in (0 - 1)..(Len(obItems) + 1) :
       LET r == kSmallestObject(obMemory, itemsRef, k)
       IN  /\ obMemory' = r.mem
           /\ obResult' = r.ref
  /\ obPc' = "kSmallest"
  /\ UNCHANGED <<obItems, exceptOb>>

\* the caller calls binarySearch(items, target, comparator) on items in
\* ascending order, as the function requires
BinarySearchCall ==
  /\ obPc = "ready"
  /\ \A i \in 1..(Len(obItems) - 1) : comparator(obItems[i], obItems[i + 1]) <= 0
  /\ \E key \in 0..(MaxKey + 1) :
       LET r == binarySearchObject(obMemory, itemsRef, <<0 - 1, key>>)
       IN  /\ obMemory' = r.mem
           /\ obResult' = r.result
  /\ obPc' = "binarySearch"
  /\ UNCHANGED <<obItems, exceptOb>>

\* the caller calls combinations(items, k)
CombinationsCall ==
  /\ obPc = "ready"
  /\ \E k \in (0 - 1)..(Len(obItems) + 1) :
       LET r == combinationsObject(obMemory, itemsRef, k)
       IN  /\ obMemory' = r.mem
           /\ obResult' = r.ref
  /\ obPc' = "combinations"
  /\ UNCHANGED <<obItems, exceptOb>>

\* the caller calls permutations(items)
PermutationsCall ==
  /\ obPc = "ready"
  /\ LET r == permutationsObject(obMemory, itemsRef)
     IN  /\ obMemory' = r.mem
         /\ obResult' = r.ref
  /\ obPc' = "permutations"
  /\ UNCHANGED <<obItems, exceptOb>>

ObNext ==
  \/ MergeSortCall
  \/ BubbleSortCall
  \/ QuickSelectCall
  \/ KSmallestCall
  \/ BinarySearchCall
  \/ CombinationsCall
  \/ PermutationsCall

(***************************************************************************)
(* DisposableStore  (lifecycle.ts 28-67)                                   *)
(*                                                                         *)
(* A store is the record of its two fields and of the log of the dispose() *)
(* calls it made on disposables.  _disposables is a Set: it iterates in    *)
(* insertion order and holds a disposable once.  dispose() of a disposable *)
(* returns normally and calls no method of the store.                      *)
(***************************************************************************)
\* the disposables a caller holds
Disposables == {"d1", "d2", "d3"}

\* new DisposableStore()
newStore == [disposables |-> <<>>, isDisposed |-> FALSE, log |-> <<>>]

\* d.dispose(), seen from the store
invoke(st, d) == [st EXCEPT !.log = Append(st.log, d)]

\* this._disposables.add(d)
track(st, d) ==
  [st EXCEPT !.disposables = IF Contains(st.disposables, d)
                             THEN st.disposables
                             ELSE Append(st.disposables, d)]

\* a body of the loop of add that tracks d whatever _isDisposed is
addOneAlwaysTracks(st, d) == track(st, d)

\* add: the body of its for loop
addOne(st, d) == IF st.isDisposed THEN invoke(st, d) ELSE track(st, d)

\* add(...disposables): its for loop from the i-th argument on
RECURSIVE add(_, _, _)
add(st, disposables, i) ==
  IF i <= Len(disposables)
  THEN add(addOne(st, disposables[i]), disposables, i + 1)
  ELSE st

\* clear: its for loop from the i-th tracked disposable on
RECURSIVE clearLoop(_, _)
clearLoop(st, i) ==
  IF i <= Len(st.disposables)
  THEN clearLoop(invoke(st, st.disposables[i]), i + 1)
  ELSE st

\* clear()
clear(st) == [clearLoop(st, 1) EXCEPT !.disposables = <<>>]

\* dispose()
dispose(st) ==
  IF st.isDisposed THEN st ELSE clear([st EXCEPT !.isDisposed = TRUE])

\* the store as a call finds it, with an empty log
DsStore == [disposables |-> dsDisposables, isDisposed |-> dsIsDisposed, log |-> <<>>]

\* the argument lists of add: one disposable or two
DsArguments == [1..1 -> Disposables] \cup [1..2 -> Disposables]

\* no store was constructed
DsIdle ==
  /\ dsDisposables = <<>>
  /\ dsIsDisposed = FALSE
  /\ dsInvoked = [d \in Disposables |-> 0]
  /\ dsLast = [op |-> "idle"]
  /\ dsDisposeCalls = 0
  /\ dsCalls = 0

\* const store = new DisposableStore()
DsInit ==
  /\ dsDisposables = newStore.disposables
  /\ dsIsDisposed = newStore.isDisposed
  /\ dsInvoked = [d \in Disposables |-> 0]
  /\ dsLast = [op |-> "new"]
  /\ dsDisposeCalls = 0
  /\ dsCalls = 0

\* the fields and the history after a call that left the store as after
DsReturn(op, args, after) ==
  /\ dsDisposables' = after.disposables
  /\ dsIsDisposed' = after.isDisposed
  /\ dsInvoked' = [d \in Disposables |->
                    dsInvoked[d]
                    + Cardinality({i \in 1..Len(after.log) : after.log[i] = d})]
  /\ dsLast' = [op |-> op, args |-> args, tracked |-> dsDisposables,
                earlier |-> dsDisposeCalls, invoked |-> after.log]
  /\ dsCalls' = dsCalls + 1

\* store.add(...disposables)
Add(disposables) ==
  /\ dsCalls < MaxStoreCalls
  /\ DsReturn("add", disposables, add(DsStore, disposables, 1))
  /\ UNCHANGED <<dsDisposeCalls, exceptDs>>

\* store.dispose()
Dispose ==
  /\ dsCalls < MaxStoreCalls
  /\ DsReturn("dispose", <<>>, dispose(DsStore))
  /\ dsDisposeCalls' = dsDisposeCalls + 1
  /\ UNCHANGED exceptDs

\* store.clear()
Clear ==
  /\ dsCalls < MaxStoreCalls
  /\ DsReturn("clear", <<>>, clear(DsStore))
  /\ UNCHANGED <<dsDisposeCalls, exceptDs>>

DsNext ==
  \/ \E disposables \in DsArguments : Add(disposables)
  \/ Dispose
  \/ Clear

(***************************************************************************)
(* retry  (helpers/core.ts 78-98)                                          *)
(*                                                                         *)
(* operation and shouldRetry are callbacks of the caller: every call of    *)
(* operation resolves or rejects, and every call of shouldRetry returns    *)
(* true or false, as the caller's code decides.  The n-th call of          *)
(* operation resolves with a value or rejects with an error of its own.    *)
(***************************************************************************)
\* retries = 3 in the destructuring of options
DefaultRetries == 3

\* delayMs = 0 in the destructuring of options
DefaultDelayMs == 0

\* a property of options that is not given
Undefined == [given |-> FALSE, value |-> 0]

\* a property of options given as the number value
Given(value) == [given |-> TRUE, value |-> value]

\* const { x = d } = options
Destructure(property, default) ==
  IF property.given THEN property.value ELSE default

\* what the n-th call of operation resolves with
OperationValue(n) == [kind |-> "value", from |-> "operation", n |-> n]

\* what the n-th call of operation rejects with
OperationError(n) == [kind |-> "error", from |-> "operation", n |-> n]

\* new Error("retry: unreachable")
UnreachableError == [kind |-> "error", from |-> "retry: unreachable", n |-> 0]

\* the promise of retry is not settled
Pending == [kind |-> "pending", from |-> "retry", n |-> 0]

\* a canRetry that does not compare attempt with retries
canRetryAnyAttempt(attempt, retries, shouldRetry, verdict) ==
  ~shouldRetry \/ verdict

\* attempt < retries && (!shouldRetry || shouldRetry(error, attempt));
\* verdict is what shouldRetry returns when it is called
canRetry(attempt, retries, shouldRetry, verdict) ==
  attempt < retries /\ (~shouldRetry \/ verdict)

\* shouldRetry is called in the evaluation of canRetry
asksShouldRetry(attempt, retries, shouldRetry) ==
  attempt < retries /\ shouldRetry

\* the entries a pass adds to the log: the call of operation, and the call
\* of shouldRetry(error, attempt) when there is one
retryLog(log, attempt, retries, shouldRetry, succeeds, verdict) ==
  LET n == Cardinality({i \in 1..Len(log) : log[i].call = "operation"}) + 1
      called == Append(log, [call |-> "operation", n |-> n, attempt |-> attempt,
                             returned |-> succeeds])
  IN  IF ~succeeds /\ asksShouldRetry(attempt, retries, shouldRetry)
      THEN Append(called, [call |-> "shouldRetry", n |-> n, attempt |-> attempt,
                           returned |-> verdict])
      ELSE called

\* the test of the for loop and one pass of its body up to the delay, or the
\* throw after the loop.  succeeds: the call of operation resolves.
retryPass(log, attempt, retries, delayMs, shouldRetry, succeeds, verdict) ==
  IF attempt <= retries
  THEN LET logged == retryLog(log, attempt, retries, shouldRetry, succeeds, verdict)
           n == Cardinality({i \in 1..Len(logged) : logged[i].call = "operation"})
       IN  IF succeeds
           THEN [pc |-> "resolved", result |-> OperationValue(n),
                 attempt |-> attempt, log |-> logged]
           ELSE IF ~canRetry(attempt, retries, shouldRetry, verdict)
           THEN [pc |-> "rejected", result |-> OperationError(n),
                 attempt |-> attempt, log |-> logged]
           ELSE IF delayMs > 0
           THEN [pc |-> "delay", result |-> Pending, attempt |-> attempt,
                 log |-> logged]
           ELSE [pc |-> "loop", result |-> Pending, attempt |-> attempt + 1,
                 log |-> logged]
  ELSE [pc |-> "rejected", result |-> UnreachableError, attempt |-> attempt,
        log |-> log]

\* retry was not called
RtIdle ==
  /\ rtOptions = [retries |-> Undefined, delayMs |-> Undefined, shouldRetry |-> FALSE]
  /\ rtRetries = 0
  /\ rtDelayMs = 0
  /\ rtAttempt = 0
  /\ rtLog = <<>>
  /\ rtResult = Pending
  /\ rtPc = "idle"

\* the call retry(operation, options): retries is not given or is a number
\* from 2 below 0 to MaxRetries, delayMs is not given, 0 or 1, shouldRetry is
\* given or not
RtInit ==
  /\ \E retries \in {Undefined} \cup {Given(r) : r \in (0 - 2)..MaxRetries} :
       \E delayMs \in {Undefined, Given(0), Given(1)} :
         \E shouldRetry \in BOOLEAN :
           rtOptions = [retries |-> retries, delayMs |-> delayMs,
                        shouldRetry |-> shouldRetry]
  /\ rtRetries = 0
  /\ rtDelayMs = 0
  /\ rtAttempt = 0
  /\ rtLog = <<>>
  /\ rtResult = Pending
  /\ rtPc = "call"

\* const { retries = 3, delayMs = 0, shouldRetry } = options; attempt = 0
RetryEnter ==
  /\ rtPc = "call"
  /\ rtRetries' = Destructure(rtOptions.retries, DefaultRetries)
  /\ rtDelayMs' = Destructure(rtOptions.delayMs, DefaultDelayMs)
  /\ rtAttempt' = 0
  /\ rtPc' = "loop"
  /\ UNCHANGED <<rtOptions, rtLog, rtResult, exceptRt>>

\* one pass of the for loop, or the end of the loop
RetryPass(succeeds, verdict) ==
  /\ rtPc = "loop"
  /\ LET r == retryPass(rtLog, rtAttempt, rtRetries, rtDelayMs,
                        rtOptions.shouldRetry, succeeds, verdict)
     IN  /\ rtPc' = r.pc
         /\ rtResult' = r.result
         /\ rtAttempt' = r.attempt
         /\ rtLog' = r.log
  /\ UNCHANGED <<rtOptions, rtRetries, rtDelayMs, exceptRt>>

\* the timer of the delay fires: the pass ends and attempt += 1
RetryDelay ==
  /\ rtPc = "delay"
  /\ rtAttempt' = rtAttempt + 1
  /\ rtPc' = "loop"
  /\ UNCHANGED <<rtOptions, rtRetries, rtDelayMs, rtLog, rtResult, exceptRt>>

RtNext ==
  \/ RetryEnter
  \/ \E succeeds, verdict \in BOOLEAN : RetryPass(succeeds, verdict)
  \/ RetryDelay

\* the arrays as objects and what is modelled besides algorithms.ts are not
\* in use
MoreIdle == ObIdle /\ DsIdle /\ RtIdle

(***************************************************************************)
(* Specifications: one per data structure or algorithm.  The variables of  *)
(* the others keep their initial values.                                   *)
(***************************************************************************)
InitPQ ==
  /\ PQInit /\ UFInit /\ DjIdle /\ TsIdle /\ TrIdle /\ BfsIdle /\ DfsIdle
  /\ ArIdle /\ MoreIdle
SpecPQ == InitPQ /\ [][PQNext]_vars

InitUF ==
  /\ PQInit /\ UFInit /\ DjIdle /\ TsIdle /\ TrIdle /\ BfsIdle /\ DfsIdle
  /\ ArIdle /\ MoreIdle
SpecUF == InitUF /\ [][UFNext]_vars

InitDijkstra ==
  /\ PQInit /\ UFInit /\ DjInit /\ TsIdle /\ TrIdle /\ BfsIdle /\ DfsIdle
  /\ ArIdle /\ MoreIdle
SpecDijkstra == InitDijkstra /\ [][DjNext]_vars

InitTopo ==
  /\ PQInit /\ UFInit /\ DjIdle /\ TsInit /\ TrIdle /\ BfsIdle /\ DfsIdle
  /\ ArIdle /\ MoreIdle
SpecTopo == InitTopo /\ [][TsNext]_vars

InitBfs ==
  /\ PQInit /\ UFInit /\ DjIdle /\ TsIdle /\ TrInput /\ BfsInit /\ DfsIdle
  /\ ArIdle /\ MoreIdle
SpecBfs == InitBfs /\ [][BfsNext]_vars

InitDfs ==
  /\ PQInit /\ UFInit /\ DjIdle /\ TsIdle /\ TrInput /\ BfsIdle /\ DfsInit
  /\ ArIdle /\ MoreIdle
SpecDfs == InitDfs /\ [][DfsNext]_vars

InitTraversal ==
  /\ PQInit /\ UFInit /\ DjIdle /\ TsIdle /\ TrInput /\ BfsInit /\ DfsIdle
  /\ ArIdle /\ MoreIdle
SpecTraversal == InitTraversal /\ [][TraversalNext]_vars

InitSort ==
  /\ OthersIdle /\ SortInit /\ QsIdle /\ KsIdle /\ BsIdle /\ CbIdle
  /\ PmIdle /\ MoreIdle
SpecSort == InitSort /\ [][SortNext]_vars

InitQuickSelect ==
  /\ OthersIdle /\ SortIdle /\ QsInit /\ KsIdle /\ BsIdle /\ CbIdle
  /\ PmIdle /\ MoreIdle
SpecQuickSelect == InitQuickSelect /\ [][QsNext]_vars

InitKSmallest ==
  /\ OthersIdle /\ SortIdle /\ QsIdle /\ KsInit /\ BsIdle /\ CbIdle
  /\ PmIdle /\ MoreIdle
SpecKSmallest == InitKSmallest /\ [][KsNext]_vars

InitBinarySearch ==
  /\ OthersIdle /\ SortIdle /\ QsIdle /\ KsIdle /\ BsInit /\ CbIdle
  /\ PmIdle /\ MoreIdle
SpecBinarySearch == InitBinarySearch /\ [][BsNext]_vars

InitCombinations ==
  /\ OthersIdle /\ SortIdle /\ QsIdle /\ KsIdle /\ BsIdle /\ CbInit
  /\ PmIdle /\ MoreIdle
SpecCombinations == InitCombinations /\ [][CbNext]_vars

InitKsCb ==
  /\ OthersIdle /\ SortIdle /\ QsIdle /\ BsIdle /\ PmIdle
  /\ KsCbInit /\ MoreIdle
SpecKsCb == InitKsCb /\ [][KsCbNext]_vars

InitPermutations ==
  /\ OthersIdle /\ SortIdle /\ QsIdle /\ KsIdle /\ BsIdle /\ CbIdle
  /\ PmInit /\ MoreIdle
SpecPermutations == InitPermutations /\ [][PmNext]_vars

InitObjects ==
  /\ OthersIdle /\ ArIdle
  /\ ObInit /\ DsIdle /\ RtIdle
SpecObjects == InitObjects /\ [][ObNext]_vars

InitStore ==
  /\ OthersIdle /\ ArIdle
  /\ ObIdle /\ DsInit /\ RtIdle
SpecStore == InitStore /\ [][DsNext]_vars

InitRetry ==
  /\ OthersIdle /\ ArIdle
  /\ ObIdle /\ DsIdle /\ RtInit
SpecRetry == InitRetry /\ [][RtNext]_vars

(***************************************************************************)
(* Properties of the PriorityQueue                                         *)
(***************************************************************************)
\* the values successive pop() calls return until the queue is empty
RECURSIVE Drain(_)
Drain(h) ==
  IF Len(h) = 0 THEN <<>> ELSE <<pop(h).result>> \o Drain(pop(h).heap)

NonDecreasing(s) == \A i \in 1..(Len(s) - 1) : comparator(s[i], s[i + 1]) <= 0

RECURSIVE SeqSum(_)
SeqSum(s) == IF s = <<>> THEN 0 ELSE s[1] + SeqSum(Tail(s))

Occurrences(s, x) == Cardinality({i \in 1..Len(s) : s[i] = x})

\* C1: after any interleaving of push and pop, popping until the queue is
\* empty yields values in non-decreasing comparator order, and the element a
\* pop has just returned is not greater than any element still queued.
C1_PopOrder ==
  /\ Len(Drain(heap)) = Len(heap)
  /\ NonDecreasing(Drain(heap))
  /\ (pqLast.op = "pop" /\ pqLast.result # Nothing)
       => \A i \in 1..Len(heap) : comparator(pqLast.result, heap[i]) <= 0

\* a pop that returned an element while larger and equal elements, pushed
\* before and after earlier pops, are still queued
C1_Witness ==
  /\ pqLast.op = "pop" /\ pqLast.result # Nothing
  /\ Len(heap) >= 3
  /\ \E i \in 1..Len(heap) : comparator(pqLast.result, heap[i]) < 0
  /\ \E i \in 1..Len(heap) : heap[i][1] < pqLast.result[1]
  /\ SeqSum(pqPopCount) >= 2

\* C2: size is the number of pushes minus the number of pops that returned
\* an element; every pushed element is either queued exactly once or was
\* popped exactly once (equal-comparing elements are all kept), and draining
\* the queue returns each queued element exactly once.
C2_SizeAndMultiset ==
  /\ size(heap) = Len(pqPushed) - SeqSum(pqPopCount)
  /\ \A id \in 1..Len(pqPushed) :
        /\ Occurrences(heap, pqPushed[id]) + pqPopCount[id] = 1
        /\ Occurrences(Drain(heap), pqPushed[id]) = Occurrences(heap, pqPushed[id])
  /\ \A i \in 1..Len(heap) : \E id \in 1..Len(pqPushed) : heap[i] = pqPushed[id]

\* two equal-comparing elements are queued together after a pop returned
\* one element
C2_Witness ==
  /\ SeqSum(pqPopCount) >= 1
  /\ \E i, j \in 1..Len(heap) : i # j /\ comparator(heap[i], heap[j]) = 0
  /\ Len(heap) >= 3

\* C3: pop() and peek() on an empty queue return Nothing and leave the queue
\* empty; a push after an empty pop queues its value; peek() returns what
\* the next pop() would return and leaves the heap as it was.
C3_EmptyAndPeek ==
  [][ /\ (pqLast'.op \in {"pop", "peek"} /\ Len(heap) = 0)
          => (pqLast'.result = Nothing /\ heap' = <<>>)
      /\ (pqLast'.op = "peek")
          => (heap' = heap /\ pqLast'.result = pop(heap).result)
      /\ (pqLast'.op = "push" /\ pqEmptyPop)
          => (size(heap') = size(heap) + 1
              /\ Occurrences(heap', pqPushed'[Len(pqPushed')]) = 1)
    ]_vars

\* an empty pop happened, values were pushed afterwards and peek returned
\* the root of a queue of several elements
C3_Witness ==
  /\ pqEmptyPop
  /\ pqLast.op = "peek" /\ pqLast.result # Nothing
  /\ Len(heap) >= 2

(***************************************************************************)
(* Properties of the UnionFind                                             *)
(***************************************************************************)
\* the key reached from x by following parent n times
RECURSIVE Walk(_, _, _)
Walk(p, x, n) == IF n = 0 THEN x ELSE Walk(p, p[x], n - 1)

\* uf.find(x) === uf.find(y), the two calls made one after the other
SameRoot(x, y) ==
  LET fx == find(parent, rank, x)
      fy == find(fx.parent, fx.rank, y)
  IN  fx.result = fy.result

\* C4: right after union(a, b) returns find(a) = find(b), and the equality
\* keeps holding after any later union and find calls: two keys that the
\* unions made so far put in one set have the same root.
C4_UnionJoins ==
  /\ (ufLast.op = "union") => SameRoot(ufLast.a, ufLast.b)
  /\ \A x, y \in UFKeys : (SetOf(ufSets, x) = SetOf(ufSets, y)) => SameRoot(x, y)

\* a union has just joined two keys through their roots, in a set of at
\* least three keys built by earlier unions
C4_Witness ==
  /\ ufLast.op = "union" /\ ufLast.a # ufLast.b
  /\ parent[ufLast.a] # ufLast.b /\ parent[ufLast.b] # ufLast.a
  /\ Cardinality(SetOf(ufSets, ufLast.a)) >= 3
  /\ \E x \in UFKeys \ DOMAIN parent : TRUE

\* C5: following parent from a registered key reaches, within as many steps
\* as there are registered keys, a root r with parent[r] = r; find(x) returns
\* that root, find(find(x)) = find(x), and find of a key never referenced
\* registers it as its own root with rank 0 and returns it.
C5_RootsAndFind ==
  /\ DOMAIN rank = DOMAIN parent
  /\ \A x \in DOMAIN parent : parent[x] \in DOMAIN parent
  /\ \A x \in DOMAIN parent :
        LET r == Walk(parent, x, Cardinality(DOMAIN parent))
        IN  parent[r] = r /\ find(parent, rank, x).result = r
  /\ \A x \in UFKeys :
        LET f == find(parent, rank, x)
        IN  find(f.parent, f.rank, f.result).result = f.result
  /\ \A x \in UFKeys \ DOMAIN parent :
        LET f == find(parent, rank, x)
        IN  /\ f.result = x
            /\ f.parent = MapSet(parent, x, x)
            /\ f.rank = MapSet(rank, x, 0)
  /\ (ufLast.op = "find") =>
        /\ ufLast.result \in DOMAIN parent
        /\ parent[ufLast.result] = ufLast.result
        /\ Walk(parent, ufLast.a, Cardinality(DOMAIN parent)) = ufLast.result

\* find has just returned a root other than its argument while some key is
\* still two parent steps away from its root
C5_Witness ==
  /\ ufLast.op = "find" /\ ufLast.result # ufLast.a
  /\ \E y \in DOMAIN parent : parent[y] # y /\ parent[parent[y]] # parent[y]

(***************************************************************************)
(* Properties of dijkstra                                                  *)
(***************************************************************************)
RECURSIVE SetMin(_)
SetMin(S) ==
  LET x == CHOOSE x \in S : TRUE
  IN  IF S = {x} THEN x
      ELSE LET m == SetMin(S \ {x}) IN IF x < m THEN x ELSE m

\* the weights of the entries of u that lead to v
DjEdgeWeights(u, v) ==
  {djGraph[u][i][2] : i \in {j \in 1..Len(djGraph[u]) : djGraph[u][j][1] = v}}

\* brute force: every walk from djStart along entries of the graph that
\* visits at most one node more than there are nodes
DjWalks ==
  {w \in SeqsUpTo(DjNodes, Cardinality(DjNodes) + 1) :
     /\ Len(w) >= 1 /\ w[1] = djStart
     /\ \A i \in 1..(Len(w) - 1) : DjEdgeWeights(w[i], w[i + 1]) # {}}

\* the least total weight of a walk (each step by its lightest entry)
RECURSIVE DjWalkWeight(_)
DjWalkWeight(w) ==
  IF Len(w) <= 1 THEN 0
  ELSE SetMin(DjEdgeWeights(w[1], w[2])) + DjWalkWeight(Tail(w))

\* the nodes some walk of the set reaches, and the least weight of the walks
\* that end at v
DjReachable(walks) == {w[Len(w)] : w \in walks}

DjShortest(walks, v) ==
  SetMin({DjWalkWeight(w) : w \in {x \in walks : x[Len(x)] = v}})

\* C6: with non-negative weights, the map dijkstra returns gives start the
\* distance 0, gives every node reachable from start the least total weight
\* of a path found by brute-force enumeration, and holds no other node.
C6_ShortestPaths ==
  (djPc = "done") =>
    LET walks == DjWalks
    IN  /\ distances[djStart] = 0
        /\ DOMAIN distances = DjReachable(walks)
        /\ \A v \in DjReachable(walks) : distances[v] = DjShortest(walks, v)

\* dijkstra returned for a graph where the two-edge path to a node is
\* shorter than its direct edge from start
C6_Witness ==
  /\ djPc = "done"
  /\ \E v \in DOMAIN distances :
       /\ v # djStart
       /\ DjEdgeWeights(djStart, v) # {}
       /\ distances[v] < SetMin(DjEdgeWeights(djStart, v))

(***************************************************************************)
(* Properties of topologicalSort                                           *)
(***************************************************************************)
\* the distinct edges and the distinct nodes of the input
TsEdgeSet == {tsEdges[i] : i \in 1..Len(tsEdges)}

TsAllNodes ==
  {tsNodes[i] : i \in 1..Len(tsNodes)}
    \cup {e[1] : e \in TsEdgeSet} \cup {e[2] : e \in TsEdgeSet}

\* the nodes reached from the set S by one edge or more: n rounds of adding
\* the successors of what is reached
RECURSIVE TsReach(_, _)
TsReach(S, n) ==
  LET next == {e[2] : e \in {d \in TsEdgeSet : d[1] \in S}}
  IN  IF n = 0 THEN {} ELSE next \cup TsReach(next, n - 1)

\* the directed graph of the edges has a cycle (a self-loop is one)
TsHasCycle == \E n \in TsAllNodes : n \in TsReach({n}, Cardinality(TsAllNodes))

\* the position of x in a sequence (0 when absent)
IndexOf(s, x) == IF Contains(s, x) THEN CHOOSE i \in 1..Len(s) : s[i] = x ELSE 0

\* C7: topologicalSort throws exactly when the graph of the edges has a
\* cycle, a self-loop included, and returns otherwise; when the while loop
\* starts the in-degree of a node is the number of its distinct incoming
\* edges, so repeated edges alone never cause the error.
C7_ThrowsIffCycle ==
  /\ (tsPc = "threw") => TsHasCycle
  /\ (tsPc = "returned") => ~TsHasCycle
  /\ (tsPc = "loop" /\ tsResult = <<>>) =>
       \A n \in DOMAIN inDegree :
         inDegree[n] = Cardinality({e \in TsEdgeSet : e[2] = n})

\* a sort threw on a cycle of two nodes, after it emitted another node, for
\* edges that also repeat an edge
C7_Witness ==
  /\ tsPc = "threw"
  /\ \A e \in TsEdgeSet : e[1] # e[2]
  /\ Cardinality(TsEdgeSet) < Len(tsEdges)
  /\ tsResult # <<>>

\* a sort returned for edges that repeat an edge
C7_WitnessReturned ==
  /\ tsPc = "returned"
  /\ Cardinality(TsEdgeSet) < Len(tsEdges)
  /\ Cardinality(TsEdgeSet) >= 2

\* C8: the result returned holds every distinct node (listed in nodes or only
\* an endpoint of an edge) exactly once and every edge goes forward in it;
\* nodes are emitted in the order they became ready (the order they were
\* pushed on the queue); nodes [1,2,3] with edges (1,2),(2,3) give [1,2,3]
\* and no nodes with the edge (1,2) give [1,2].
C8_OrderedResult ==
  (tsPc = "returned") =>
    /\ {tsResult[i] : i \in 1..Len(tsResult)} = TsAllNodes
    /\ Len(tsResult) = Cardinality(TsAllNodes)
    /\ \A e \in TsEdgeSet : IndexOf(tsResult, e[1]) < IndexOf(tsResult, e[2])
    /\ tsResult = tsEnqueued
    /\ (tsNodes = <<1, 2, 3>> /\ tsEdges = <<(<<1, 2>>), (<<2, 3>>)>>)
         => tsResult = <<1, 2, 3>>
    /\ (tsNodes = <<>> /\ tsEdges = <<(<<1, 2>>)>>) => tsResult = <<1, 2>>

\* the sort of the spec's example returned
C8_Witness ==
  /\ tsPc = "returned"
  /\ tsNodes = <<1, 2, 3>>
  /\ tsEdges = <<(<<1, 2>>), (<<2, 3>>)>>
  /\ tsResult = <<1, 2, 3>>

(***************************************************************************)
(* Properties of bfs and dfs                                               *)
(***************************************************************************)
\* the neighbors of the nodes of S
TrSuccessors(S) ==
  UNION {{graphGet(trGraph, n)[i] : i \in 1..Len(graphGet(trGraph, n))} : n \in S}

\* the nodes at most k edges away from start
RECURSIVE TrWithin(_)
TrWithin(k) ==
  IF k = 0 THEN {trStart}
  ELSE LET prev == TrWithin(k - 1) IN prev \cup TrSuccessors(prev)

\* the hop distance from start of a node reachable from it
TrHops(v) ==
  CHOOSE k \in 0..Cardinality(TrNodes) :
    v \in TrWithin(k) /\ (k = 0 \/ v \notin TrWithin(k - 1))

\* a sequence without the later occurrences of its items
RECURSIVE FirstOccurrences(_)
FirstOccurrences(s) ==
  IF s = <<>> THEN <<>>
  ELSE LET front == FirstOccurrences(SubSeq(s, 1, Len(s) - 1))
       IN  IF Contains(front, s[Len(s)]) THEN front ELSE Append(front, s[Len(s)])

\* the graph a:[b,c], b:[d], c:[], d:[] with a, b, c, d = 1, 2, 3, 4; the
\* example starts at a
TrExample == [n \in TrNodes |-> CASE n = 1 -> <<2, 3>>
                                  [] n = 2 -> <<4>>
                                  [] OTHER -> <<>>]

\* C9: bfs outputs nodes in level order: a node with a smaller hop distance
\* from start comes before one with a larger; the queue is first in, first
\* out, so the nodes come out in the order they were first pushed; the
\* example graph gives [a,b,c,d].
C9_LevelOrder ==
  /\ \A i, j \in 1..Len(bfsOrder) :
       i < j => TrHops(bfsOrder[i]) <= TrHops(bfsOrder[j])
  /\ LET taken == Len(bfsEnqueued) - Len(bfsQueue)
     IN  /\ bfsQueue = SubSeq(bfsEnqueued, taken + 1, Len(bfsEnqueued))
         /\ bfsOrder = FirstOccurrences(SubSeq(bfsEnqueued, 1, taken))
  /\ (bfsPc = "done" /\ trGraph = TrExample /\ trStart = 1) => bfsOrder = <<1, 2, 3, 4>>

\* bfs returned nodes of three levels for a graph where a node was pushed
\* on the queue twice
C9_Witness ==
  /\ bfsPc = "done"
  /\ Len(bfsOrder) = 4
  /\ TrHops(bfsOrder[4]) = 2
  /\ Len(bfsEnqueued) > Len(bfsOrder)

\* the nodes reached from the nodes of S inside the set allowed, S included
RECURSIVE TrReachIn(_, _)
TrReachIn(S, allowed) ==
  LET here == S \cap allowed
      more == here \cup (TrSuccessors(here) \cap allowed)
  IN  IF more = here THEN here ELSE TrReachIn(more, allowed)

\* the neighbors of the node of a frame whose visit call has returned
DfsDoneNeighbors(f) == {graphGet(trGraph, f.node)[j] : j \in 1..f.done}

DfsFrames == {dfsStack[i] : i \in 1..Len(dfsStack)}

\* C10 as stated: once the visit call on a neighbor of an output node has
\* returned, every node reachable from that neighbor that was not visited
\* when the node was output has been output; the example gives [a,b,d,c].
C10_AsStated ==
  /\ \A f \in DfsFrames : \A n \in DfsDoneNeighbors(f) :
       (TrReachIn({n}, TrNodes) \ f.seen) \subseteq dfsVisited
  /\ (dfsPc = "done" /\ trGraph = TrExample /\ trStart = 1) => dfsOrder = <<1, 2, 4, 3>>

\* C10, amended: once the visit call on a neighbor of an output node has
\* returned, every node reachable from that neighbor along nodes that were
\* not visited when the node was output has been output (before the next
\* neighbor is considered); the order lists the visited nodes once each, and
\* the example gives [a,b,d,c].
C10_Preorder ==
  /\ \A f \in DfsFrames : \A n \in DfsDoneNeighbors(f) :
       TrReachIn({n}, TrNodes \ f.seen) \subseteq dfsVisited
  /\ {dfsOrder[i] : i \in 1..Len(dfsOrder)} = dfsVisited
  /\ Len(dfsOrder) = Cardinality(dfsVisited)
  /\ (dfsPc = "done" /\ trGraph = TrExample /\ trStart = 1) => dfsOrder = <<1, 2, 4, 3>>

\* the call on the first of two neighbors of start has returned after it
\* output two nodes, the second with an edge back to start
C10_Witness ==
  /\ Len(dfsStack) = 1
  /\ dfsStack[1].done = 1
  /\ Len(graphGet(trGraph, trStart)) = 2
  /\ Len(dfsOrder) = 3
  /\ trStart \in TrSuccessors({dfsOrder[3]})
  /\ graphGet(trGraph, trStart)[2] \notin dfsVisited

\* the nodes reachable from the nodes of S, S included
RECURSIVE TrClosure(_)
TrClosure(S) ==
  IF TrSuccessors(S) \subseteq S THEN S ELSE TrClosure(S \cup TrSuccessors(S))

\* the nodes reachable from start, start included
TrReachable == TrClosure({trStart})

\* the items of a sequence, as a set
Range(s) == {s[i] : i \in 1..Len(s)}

\* how many neighbor entries the nodes of S have in all
TrEntryCount(S) ==
  Cardinality(UNION {{<<n, i>> : i \in 1..Len(graphGet(trGraph, n))} : n \in S})

\* a bound on the passes of the while loop bfs has left: the queued nodes
\* and the pushes still possible (one per neighbor entry, and one for start)
BfsVariant ==
  (1 + TrEntryCount(TrNodes) - Len(bfsEnqueued)) + Len(bfsQueue)
    + (IF bfsPc = "loop" THEN 1 ELSE 0)

\* a bound on the steps dfs has left: the neighbor entries the active calls
\* have not passed, and the calls and entries of the nodes not yet visited
RECURSIVE DfsStackWork(_)
DfsStackWork(stack) ==
  IF stack = <<>> THEN 0
  ELSE LET f == stack[Len(stack)]
       IN  2 * (Len(graphGet(trGraph, f.node)) - f.done) + 1
             + DfsStackWork(SubSeq(stack, 1, Len(stack) - 1))

DfsVariant ==
  2 * (TrEntryCount(TrNodes \ dfsVisited) + Cardinality(TrNodes \ dfsVisited))
    + DfsStackWork(dfsStack)
    + (CASE dfsPc = "idle" -> 3 [] dfsPc = "visit" -> 1 [] OTHER -> 0)

\* what holds of bfs and dfs in every state of a run
TraversalState ==
  /\ Range(bfsOrder) = bfsVisited
  /\ Len(bfsOrder) = Cardinality(bfsVisited)
  /\ Range(dfsOrder) = dfsVisited
  /\ Len(dfsOrder) = Cardinality(dfsVisited)
  /\ dfsPc = "visit" => trStart \in dfsVisited
  /\ \A reachable \in {TrReachable} :
         /\ bfsVisited \subseteq reachable
         /\ dfsVisited \subseteq reachable
         /\ bfsPc = "done" => Range(bfsOrder) = reachable
         /\ dfsPc = "done" => Range(dfsOrder) = reachable
  /\ (bfsPc = "done" /\ trStart \notin DOMAIN trGraph) => bfsOrder = <<trStart>>
  /\ (dfsPc = "done" /\ trStart \notin DOMAIN trGraph) => dfsOrder = <<trStart>>
  /\ dfsPc # "done" => ENABLED <<TraversalNext>>_trVars

\* C11: on every adjacency map (cycles, diamonds, repeated entries) and every
\* start, bfs and dfs terminate (every step changes the state and lowers a
\* non-negative bound on the steps left) and return exactly the nodes reachable from start, each
\* once; a step never pushes a node already visited on the bfs queue and
\* never outputs a node again; a start that is no key of the graph gives
\* [start].
C11_ReachableOnce ==
  /\ []TraversalState
  /\ [][/\ \A left \in {BfsVariant' + DfsVariant'} :
             0 <= left /\ left < BfsVariant + DfsVariant
        /\ \A i \in (Len(bfsEnqueued) + 1)..Len(bfsEnqueued') :
             bfsEnqueued'[i] \notin bfsVisited'
        /\ SubSeq(bfsOrder', 1, Len(bfsOrder)) = bfsOrder
        /\ SubSeq(dfsOrder', 1, Len(dfsOrder)) = dfsOrder]_vars

\* both returned the three nodes of a graph with a cycle through start, one
\* of them pushed on the bfs queue twice before it was visited
C11_Witness ==
  /\ bfsPc = "done"
  /\ dfsPc = "done"
  /\ Len(bfsOrder) = 3
  /\ Len(dfsOrder) = 3
  /\ trStart \in TrSuccessors(TrReachable \ {trStart})
  /\ Len(bfsEnqueued) = 4

(***************************************************************************)
(* Properties of mergeSort and bubbleSort                                  *)
(***************************************************************************)
\* b holds the items of a, each as often as a does
IsPermutation(a, b) ==
  /\ Len(a) = Len(b)
  /\ \A x \in Range(a) \cup Range(b) : Occurrences(a, x) = Occurrences(b, x)

\* C12: for every array (empty and singleton included, keys may repeat),
\* mergeSort and bubbleSort each return a permutation of the items that is
\* non-decreasing under the comparator.
C12_SortedPermutation ==
  sortPc \in {"mergeSort", "bubbleSort"} =>
    /\ IsPermutation(sortItems, sortResult)
    /\ NonDecreasing(sortResult)

\* bubbleSort returned for four items in descending order, two of them with
\* the same key
C12_Witness ==
  /\ sortPc = "bubbleSort"
  /\ Len(sortItems) = 4
  /\ \A i \in 1..3 : comparator(sortItems[i], sortItems[i + 1]) >= 0
  /\ comparator(sortItems[1], sortItems[4]) > 0
  /\ comparator(sortItems[2], sortItems[3]) = 0
  /\ sortResult # sortItems

\* C13: mergeSort is stable: two items that compare equal are in the result
\* in the order they have in the input (the index of an item is its
\* position in the input).
C13_Stable ==
  sortPc = "mergeSort" =>
    \A i, j \in 1..Len(sortResult) :
      (i < j /\ comparator(sortResult[i], sortResult[j]) = 0)
        => sortResult[i][1] < sortResult[j][1]

\* mergeSort returned for an input where two items with one key have an
\* item with a smaller key after them and one with a larger key between
C13_Witness ==
  /\ sortPc = "mergeSort"
  /\ Len(sortItems) = 4
  /\ comparator(sortItems[1], sortItems[3]) = 0
  /\ comparator(sortItems[1], sortItems[2]) < 0
  /\ comparator(sortItems[4], sortItems[1]) < 0

(***************************************************************************)
(* Properties of quickSelect                                               *)
(***************************************************************************)
\* how many of the items compare less than x, and less than or equal to x
CountLess(items, x) ==
  Cardinality({i \in 1..Len(items) : comparator(items[i], x) < 0})

CountLessEq(items, x) ==
  Cardinality({i \in 1..Len(items) : comparator(items[i], x) <= 0})

\* x compares equal to the item at the 0-based index k of the sorted items:
\* as many as k items at most are less, and more than k are not greater
HasRank(items, k, x) == CountLess(items, x) <= k /\ k < CountLessEq(items, x)

\* a bound on the steps quickSelect has left
QsVariant ==
  CASE qsPc = "call" -> Len(qsItems) + 1
    [] qsPc = "loop" -> qsRight - qsLeft + 1
    [] OTHER -> 0

\* what holds of quickSelect in every state of a run
QsState ==
  /\ qsPc = "loop" =>
       LET r == quickSelectPass(qsArr, qsK, qsLeft, qsRight, qsCalls)
       IN  r.pc # "loop" \/ r.left # qsLeft \/ r.right # qsRight
  /\ qsPc = "threw" => qsOutOfRange(qsItems, qsK)
  /\ qsPc \in {"loop", "returned"} =>
       /\ ~qsOutOfRange(qsItems, qsK)
       /\ IsPermutation(qsItems, qsArr)
  /\ qsPc = "loop" => 0 <= qsLeft /\ qsLeft <= qsK /\ qsK <= qsRight
                        /\ qsRight < Len(qsArr)
  /\ qsPc = "returned" =>
       /\ qsResult \in Range(qsItems)
       /\ HasRank(qsItems, qsK, qsResult)
       /\ comparator(qsResult, mergeSort(qsItems)[qsK + 1]) = 0

\* C14: for every array, every k with 0 <= k < items.length and a comparator
\* under which items may compare equal, quickSelect terminates (every step
\* changes left or right or returns, and lowers a non-negative bound on the
\* steps left; k stays between left and right) and returns an item that compares equal to the item at index k of
\* the sorted items.
C14_SelectsRank ==
  /\ []QsState
  /\ [][0 <= QsVariant' /\ QsVariant' < QsVariant]_vars

\* quickSelect returned after more than one partition pass an item whose key
\* another item of the five has too
C14_Witness ==
  /\ qsPc = "returned"
  /\ Len(qsItems) = 5
  /\ qsCalls > 4
  /\ CountLessEq(qsItems, qsResult) - CountLess(qsItems, qsResult) >= 2
  /\ qsArr # qsItems

\* C15: with k < 0 or k >= items.length (any k on the empty array),
\* quickSelect throws the RangeError at once: in its first step, before any
\* comparator call and with the items in the order they had.
C15_RangeError ==
  (qsPc # "call" /\ qsOutOfRange(qsItems, qsK)) =>
    /\ qsPc = "threw"
    /\ qsCalls = 0
    /\ qsArr = qsItems

\* quickSelect threw for k = items.length on three items not in order
C15_Witness ==
  /\ qsPc = "threw"
  /\ Len(qsItems) = 3
  /\ qsK = 3
  /\ comparator(qsItems[1], qsItems[2]) > 0

(***************************************************************************)
(* Properties of kSmallest                                                 *)
(***************************************************************************)
Min(a, b) == IF a <= b THEN a ELSE b

Max(a, b) == IF a >= b THEN a ELSE b

\* the keys of the items of an array
KeysOf(arr) == [i \in 1..Len(arr) |-> arr[i][2]]

\* C16: kSmallest returns min(max(k, 0), items.length) of the items, in
\* ascending order, the i-th of them comparing equal to the i-th item of the
\* sorted items: nothing for k <= 0, all the items sorted for k >= length;
\* for the items 9, 1, 5, 2 it returns [1, 2] with k = 2, [] with k = 0 and
\* [1, 2, 5, 9] with k = 10.
C16_LeadingSorted ==
  ksPc # "call" =>
    /\ ksPc = "returned"
    /\ Len(ksResult) = Min(Max(ksK, 0), Len(ksItems))
    /\ NonDecreasing(ksResult)
    /\ \A x \in Range(ksResult) :
         Occurrences(ksResult, x) <= Occurrences(ksItems, x)
    /\ \A i \in 1..Len(ksResult) : HasRank(ksItems, i - 1, ksResult[i])
    /\ (ksItems = KsExample /\ ksK = 2) => KeysOf(ksResult) = <<1, 2>>
    /\ (ksItems = KsExample /\ ksK = 0) => ksResult = <<>>
    /\ (ksItems = KsExample /\ ksK = 10) => KeysOf(ksResult) = <<1, 2, 5, 9>>

\* kSmallest returned three of five items not in order, where the third
\* and the fourth of the sorted items compare equal
C16_Witness ==
  /\ ksPc = "returned"
  /\ Len(ksItems) = 5
  /\ ksK = 3
  /\ ~NonDecreasing(ksItems)
  /\ CountLess(ksItems, ksResult[3]) <= 2
  /\ CountLessEq(ksItems, ksResult[3]) >= 4
  /\ [i \in 1..3 |-> ksItems[i]] # ksResult

(***************************************************************************)
(* Properties of binarySearch                                              *)
(***************************************************************************)
\* a bound on the passes binarySearch has left
BsVariant == IF bsPc = "loop" THEN bsRight - bsLeft + 2 ELSE 0

\* the 0-based indexes of the items that compare equal to target
BsMatches == {i \in 0..(Len(bsItems) - 1) : comparator(At(bsItems, i), bsTarget) = 0}

\* what binarySearch returned is right, and before it returned a pass that
\* changes left or right or returns is ahead
BsState ==
  /\ bsPc = "returned" =>
       IF BsMatches # {} THEN bsResult \in BsMatches ELSE bsResult = 0 - 1
  /\ bsPc = "loop" =>
       LET r == binarySearchPass(bsItems, bsTarget, bsLeft, bsRight)
       IN  r.pc # "loop" \/ r.left # bsLeft \/ r.right # bsRight

\* C18: on items sorted ascending (keys may repeat) binarySearch returns an
\* index of an item that compares equal to target if there is one, and -1
\* if there is none; it terminates (every pass changes the state and lowers
\* a non-negative bound on the passes left), on the empty array too.
C18_FindsOrMinusOne ==
  /\ []BsState
  /\ [][0 <= BsVariant' /\ BsVariant' < BsVariant]_vars

\* binarySearch returned, after more than one pass, an index that is not
\* the leftmost of the items comparing equal to target
C18_Witness ==
  /\ bsPc = "returned"
  /\ bsResult \in BsMatches
  /\ bsResult - 1 \in BsMatches
  /\ bsLeft > 0
  /\ Len(bsItems) >= 6

(***************************************************************************)
(* Properties of combinations                                              *)
(***************************************************************************)
\* the number of k-element subsets of an n-element set, by Pascal's rule
RECURSIVE Binomial(_, _)
Binomial(n, k) ==
  IF k < 0 \/ k > n THEN 0
  ELSE IF k = 0 \/ k = n THEN 1
  ELSE Binomial(n - 1, k - 1) + Binomial(n - 1, k)

\* the positions in the input of the items of a combination
PositionsOf(combination) == [p \in 1..Len(combination) |-> combination[p][1]]

\* a comes before b in lexicographic order (a and b of one length)
LexLess(a, b) ==
  \E p \in 1..Len(a) : a[p] < b[p] /\ \A q \in 1..(p - 1) : a[q] = b[q]

\* C19: for 1 <= k <= n, combinations returns C(n, k) combinations, one for
\* each k-element set of positions: each holds k items of the input at
\* strictly increasing positions, and the position tuples are in strictly
\* increasing lexicographic order (so none is repeated); for k <= 0 it
\* returns one empty combination and for k > n none.
C19_AllCombinations ==
  cbPc = "returned" =>
    LET n == Len(cbItems) IN
    IF cbK <= 0 THEN cbResult = <<(<<>>)>>
    ELSE IF cbK > n THEN cbResult = <<>>
    ELSE /\ Len(cbResult) = Binomial(n, cbK)
         /\ \A c \in 1..Len(cbResult) :
              LET positions == PositionsOf(cbResult[c])
              IN  /\ Len(cbResult[c]) = cbK
                  /\ \A p \in 1..cbK :
                       /\ positions[p] \in 0..(n - 1)
                       /\ cbResult[c][p] = At(cbItems, positions[p])
                  /\ \A p \in 1..(cbK - 1) : positions[p] < positions[p + 1]
         /\ \A c \in 1..(Len(cbResult) - 1) :
              LexLess(PositionsOf(cbResult[c]), PositionsOf(cbResult[c + 1]))
         /\ {Range(PositionsOf(cbResult[c])) : c \in 1..Len(cbResult)}
              = {S \in SUBSET (0..(n - 1)) : Cardinality(S) = cbK}

\* combinations returned the six pairs of four items, two of which have the
\* same key
C19_Witness ==
  /\ cbPc = "returned"
  /\ Len(cbItems) = 4
  /\ cbK = 2
  /\ Len(cbResult) = 6
  /\ comparator(cbItems[1], cbItems[2]) = 0

(***************************************************************************)
(* Properties of kSmallest and combinations on a k out of range            *)
(***************************************************************************)
\* k is outside [0, items.length)
OutsideIndexRange(items, k) == k < 0 \/ k >= Len(items)

\* C17 as stated: kSmallest and combinations report a range error when k is
\* outside [0, items.length).
C17_AsStated ==
  /\ (ksPc # "call" /\ OutsideIndexRange(ksItems, ksK)) => ksPc = "threw"
  /\ (cbPc # "call" /\ OutsideIndexRange(cbItems, cbK)) => cbPc = "threw"

\* C17, amended: kSmallest and combinations report no error for any k; with
\* k outside [0, items.length) kSmallest returns no item for k < 0 and all
\* the items sorted for k >= items.length, and combinations returns one
\* empty combination for k < 0, the one combination of all the items for
\* k = items.length and no combination for k > items.length.
C17_NoRangeError ==
  /\ ksPc # "threw"
  /\ cbPc # "threw"
  /\ (ksPc = "returned" /\ ksK < 0) => ksResult = <<>>
  /\ (ksPc = "returned" /\ ksK >= Len(ksItems)) =>
       IsPermutation(ksItems, ksResult) /\ NonDecreasing(ksResult)
  /\ (cbPc = "returned" /\ cbK < 0) => cbResult = <<(<<>>)>>
  /\ (cbPc = "returned" /\ cbK = Len(cbItems)) => cbResult = <<cbItems>>
  /\ (cbPc = "returned" /\ cbK > Len(cbItems)) => cbResult = <<>>

\* both returned for three items not in order and k = 4
C17_Witness ==
  /\ ksPc = "returned"
  /\ cbPc = "returned"
  /\ Len(ksItems) = 3
  /\ ksK = 4
  /\ ~NonDecreasing(ksItems)
  /\ cbItems = ksItems
  /\ cbK = 4

(***************************************************************************)
(* Properties of permutations                                              *)
(***************************************************************************)
RECURSIVE Factorial(_)
Factorial(n) == IF n <= 0 THEN 1 ELSE n * Factorial(n - 1)

\* a bound on the passes permutations has left: the results still to push,
\* each after at most n passes that move i up, and the passes up to the
\* return
PmVariant ==
  LET n == Len(pmItems)
  IN  (Factorial(n) - Len(pmResult)) * (n + 2) + (n - pmI)
        + (IF pmPc = "loop" THEN 1 ELSE 0)

\* what holds of permutations in every state of a run
PmState ==
  /\ pmResult[1] = pmItems
  /\ \A r \in 1..Len(pmResult) : IsPermutation(pmItems, pmResult[r])
  /\ pmPc = "loop" =>
       LET r == permutationsPass(pmArr, pmC, pmI, pmResult)
       IN  r.pc # "loop" \/ r.i # pmI
  /\ pmPc = "returned" =>
       /\ Len(pmResult) = Factorial(Len(pmItems))
       /\ \A a, b \in 1..Len(pmResult) :
            a # b => KeysOf(pmResult[a]) # KeysOf(pmResult[b])
       /\ pmItems = <<>> => pmResult = <<(<<>>)>>

\* C20: for n pairwise distinct items, permutations terminates (every pass
\* changes i or returns, and lowers a non-negative bound on the passes left)
\* and returns n! results, each a rearrangement of all the items, pairwise
\* distinct as orderings, the first of them the input ordering; for the
\* empty array it returns one empty permutation.
C20_AllPermutations ==
  /\ []PmState
  /\ [][0 <= PmVariant' /\ PmVariant' < PmVariant]_vars

\* permutations returned the 24 orderings of four items that were not in
\* ascending order
C20_Witness ==
  /\ pmPc = "returned"
  /\ Len(pmItems) = 4
  /\ Len(pmResult) = 24
  /\ ~NonDecreasing(pmItems)

(***************************************************************************)
(* Properties of the functions on arrays as objects                        *)
(***************************************************************************)
\* the functions that take items as a readonly array
ObReadonly ==
  {"mergeSort", "bubbleSort", "kSmallest", "binarySearch", "combinations",
   "permutations"}

\* the functions that return an array of arrays
ObNested == {"combinations", "permutations"}

\* C21: after mergeSort, bubbleSort, kSmallest, binarySearch, combinations
\* or permutations the array of the caller holds the same items at the same
\* indices as at the call, and the array returned (and every array in it) is
\* another object than the array of the caller; after quickSelect the array
\* of the caller holds a permutation of the items it held at the call.
C21_InputUnchanged ==
  /\ obPc \in ObReadonly => obMemory[itemsRef] = obItems
  /\ obPc \in ObReadonly \ {"binarySearch"} =>
       /\ obResult \in 1..Len(obMemory)
       /\ obResult # itemsRef
  /\ obPc \in ObNested =>
       \A i \in 1..Len(obMemory[obResult]) :
         /\ obMemory[obResult][i] \in 1..Len(obMemory)
         /\ obMemory[obResult][i] # itemsRef
  /\ obPc = "quickSelect" => IsPermutation(obMemory[itemsRef], obItems)

\* kSmallest returned three of four items, in another order than they have
\* in the array of the caller, and the copy it selected in was reordered
C21_Witness ==
  /\ obPc = "kSmallest"
  /\ Len(obItems) = 4
  /\ Len(obMemory[obResult]) = 3
  /\ obMemory[obResult] # SubSeq(obItems, 1, 3)
  /\ obMemory[itemsRef] = obItems
  /\ \E ref \in 1..Len(obMemory) :
       /\ obMemory[ref] # obItems
       /\ IsPermutation(obMemory[ref], obItems)

(***************************************************************************)
(* Properties of the DisposableStore                                       *)
(***************************************************************************)
\* C22: the first dispose() of a store invokes dispose() of every disposable
\* the store tracked, once each and of no other, and leaves the store
\* empty; a later dispose() invokes nothing; an add() after the store was
\* disposed invokes dispose() of each of its arguments during the call, in
\* the order of the arguments; and from the first dispose() on the store
\* tracks nothing.
C22_DisposeOnce ==
  /\ dsLast.op = "dispose" /\ dsLast.earlier = 0 =>
       /\ \A d \in Disposables :
            Occurrences(dsLast.invoked, d) =
              IF Contains(dsLast.tracked, d) THEN 1 ELSE 0
       /\ dsDisposables = <<>>
  /\ dsLast.op = "dispose" /\ dsLast.earlier > 0 => dsLast.invoked = <<>>
  /\ dsLast.op = "add" /\ dsLast.earlier > 0 => dsLast.invoked = dsLast.args
  /\ dsDisposeCalls > 0 => dsDisposables = <<>>

\* d1 was added and disposed by the first dispose(), the second dispose()
\* left it alone, and d2 was added afterwards and disposed by add
C22_Witness ==
  /\ dsLast.op = "add"
  /\ dsLast.args = <<"d2">>
  /\ dsLast.invoked = <<"d2">>
  /\ dsDisposeCalls = 2
  /\ dsInvoked = [d \in Disposables |-> IF d = "d3" THEN 0 ELSE 1]
  /\ dsDisposables = <<>>

(***************************************************************************)
(* Properties of retry                                                     *)
(***************************************************************************)
\* the positions of the calls of operation in the log
RtOperationCalls == {i \in 1..Len(rtLog) : rtLog[i].call = "operation"}

\* how many times operation was called
RtInvocations == Cardinality(RtOperationCalls)

C30_NeverUnreachable ==
  rtPc \in {"resolved", "rejected"} => rtResult.from = "operation"

(***************************************************************************)
(* The heap of the PriorityQueue                                           *)
(***************************************************************************)
\* C24: after every push and pop the heap array has the min-heap property:
\* for every index i > 0, comparator(heap[floor((i - 1) / 2)], heap[i]) <= 0.
C24_HeapProperty ==
  \A i \in 1..(Len(heap) - 1) :
    comparator(At(heap, (i - 1) \div 2), At(heap, i)) <= 0

\* a pop left a heap of four elements that is not in ascending order: the
\* element at index 1 is greater than the one at index 2, and the one at
\* index 3 greater than its parent
C24_Witness ==
  /\ pqLast.op = "pop"
  /\ Len(heap) = 4
  /\ comparator(At(heap, 1), At(heap, 2)) > 0
  /\ comparator(At(heap, 3), At(heap, 1)) > 0

(***************************************************************************)
(* Ranks, path compression and the partition of the UnionFind              *)
(***************************************************************************)
\* the keys reached from x by following the parent map p, x first; a key
\* that is not registered is alone
UfPath(p, x) ==
  IF x \in DOMAIN p
  THEN {Walk(p, x, n) : n \in 0..Cardinality(DOMAIN p)}
  ELSE {x}

\* the root of x in the parent map p
UfRoot(p, x) ==
  IF x \in DOMAIN p THEN Walk(p, x, Cardinality(DOMAIN p)) ELSE x

\* the rank of x in the rank map r; find registers a key with rank 0
UfRank(r, x) == IF x \in DOMAIN r THEN r[x] ELSE 0

\* how many parent steps lead from x to its root
UfDepth(p, x) == Cardinality(UfPath(p, x)) - 1

\* the height of the tree below the root x
UfHeight(p, x) ==
  LET depths == {UfDepth(p, y) : y \in {z \in DOMAIN p : UfRoot(p, z) = x}}
  IN  CHOOSE h \in depths : \A d \in depths : d <= h

\* the keys that have the same root as x in the parent map p
UfClass(p, x) == {y \in UFKeys : UfRoot(p, y) = UfRoot(p, x)}

\* C25: the rank of every root is at least the height of the tree below
\* it.  In every call no rank decreases and the rank of a key that is not a
\* root is not changed.  A rank changes only in a union(a, b) whose two
\* roots differ and have the same rank: then the root of b gets the root of
\* a as its parent, the root of a stays a root and its rank grows by one.
\* In a union of two roots of different ranks the root of lower rank gets
\* the other as its parent and no rank changes.
C25_Ranks ==
  /\ [](\A x \in DOMAIN parent :
          parent[x] = x => rank[x] >= UfHeight(parent, x))
  /\ [][LET rootA == UfRoot(parent, ufLast'.a)
            rootB == UfRoot(parent, ufLast'.b)
            rankA == UfRank(rank, rootA)
            rankB == UfRank(rank, rootB)
            tie == /\ ufLast'.op = "union"
                   /\ rootA # rootB
                   /\ rankA = rankB
        IN  /\ \A k \in DOMAIN rank :
                 /\ rank'[k] >= rank[k]
                 /\ parent[k] # k => rank'[k] = rank[k]
                 /\ rank'[k] # rank[k] => tie /\ k = rootA
            /\ \A k \in (DOMAIN rank') \ DOMAIN rank :
                 rank'[k] # 0 => tie /\ k = rootA
            /\ tie =>
                 /\ parent'[rootB] = rootA
                 /\ parent'[rootA] = rootA
                 /\ rank'[rootA] = rankA + 1
                 /\ rank'[rootB] = rankB
            /\ ufLast'.op = "union" /\ rankA < rankB =>
                 /\ parent'[rootA] = rootB
                 /\ parent'[rootB] = rootB
                 /\ rank'[rootA] = rankA /\ rank'[rootB] = rankB
            /\ ufLast'.op = "union" /\ rankA > rankB =>
                 /\ parent'[rootB] = rootA
                 /\ parent'[rootA] = rootA
                 /\ rank'[rootA] = rankA /\ rank'[rootB] = rankB]_vars

\* a union of two roots of rank 1 has made a root of rank 2, and a root of
\* lower rank was attached under a root of higher rank before
C25_Witness ==
  /\ ufLast.op = "union"
  /\ \E k \in DOMAIN rank :
       /\ rank[k] = 2
       /\ parent[k] = k
       /\ UfHeight(parent, k) = 2
       /\ Cardinality(UfClass(parent, k)) = 4

\* C26: a find(x) that returns r leaves x and every key that was on the
\* parent path from x to r with the parent r, and changes the parent of no
\* other key and no rank; for a key that was not registered it registers x
\* as its own parent with rank 0 and changes nothing else.
C26_PathCompression ==
  [][ufLast'.op = "find" =>
       LET x == ufLast'.a
           r == ufLast'.result
           path == UfPath(parent, x)
       IN  /\ r = UfRoot(parent, x)
           /\ \A y \in path : parent'[y] = r
           /\ \A y \in (DOMAIN parent) \ path : parent'[y] = parent[y]
           /\ DOMAIN parent' = (DOMAIN parent) \cup {x}
           /\ \A y \in DOMAIN rank : rank'[y] = rank[y]
           /\ rank' = IF x \in DOMAIN rank THEN rank ELSE MapSet(rank, x, 0)]_vars

\* find has returned the root of a tree of four keys that once had height
\* 2 (the rank of the root is 2), and every key of it now has the root as
\* its parent
C26_Witness ==
  /\ ufLast.op = "find"
  /\ ufLast.a # ufLast.result
  /\ rank[ufLast.result] = 2
  /\ Cardinality(UfClass(parent, ufLast.result)) = 4
  /\ \A y \in UfClass(parent, ufLast.result) : parent[y] = ufLast.result

\* C27: two keys have the same root exactly when the reference partition,
\* which merges the sets of a and b on union(a, b), has them in one set, and
\* find(x) = find(y) says the same.  A find, and a union of two keys that
\* have the same root, change the classes of no key; a union of two keys
\* with different roots makes one class of their two classes and changes no
\* other class.
C27_Partition ==
  /\ [](\A x, y \in UFKeys :
          /\ (UfRoot(parent, x) = UfRoot(parent, y)) <=>
               (SetOf(ufSets, x) = SetOf(ufSets, y))
          /\ SameRoot(x, y) <=> (SetOf(ufSets, x) = SetOf(ufSets, y)))
  /\ [][\A before \in {[x \in UFKeys |-> UfRoot(parent, x)]} :
        \A after \in {[x \in UFKeys |-> UfRoot(parent', x)]} :
          LET a == ufLast'.a
              b == ufLast'.b
              joins == /\ ufLast'.op = "union"
                       /\ before[a] # before[b]
          IN  \A x, y \in UFKeys :
                (after[x] = after[y]) <=>
                  \/ before[x] = before[y]
                  \/ /\ joins
                     /\ before[x] \in {before[a], before[b]}
                     /\ before[y] \in {before[a], before[b]}]_vars

\* a union of two keys that already had the same root has returned, while
\* the four keys are in two classes of two
C27_Witness ==
  /\ ufLast.op = "union"
  /\ ufLast.a # ufLast.b
  /\ parent[ufLast.b] = ufLast.a
  /\ rank[ufLast.a] = 1
  /\ \A x \in UFKeys : Cardinality(UfClass(parent, x)) = 2
  /\ ufSets = {UfClass(parent, x) : x \in UFKeys}

(***************************************************************************)
(* The passes of dijkstra                                                  *)
(***************************************************************************)
\* a popped entry whose distance exceeds the distance recorded for its node
DjStale(e) == e.known /\ e.dist > e.best

\* the pops that were not stale, in order
DjFreshPops == SelectSeq(djPops, LAMBDA e : ~DjStale(e))

\* C28: a pass that pops an entry whose distance exceeds the distance
\* recorded for its node runs no relaxation, changes no distance and pushes
\* nothing; the edges of a node are relaxed in at most one pass; the
\* distance of a node popped with an entry that was not stale stays the
\* distance of that entry; and the distances of the successive pops that
\* were not stale do not decrease.
C28_StaleSkipped ==
  /\ [](/\ \A i \in 1..Len(djPops) : DjStale(djPops[i]) <=> ~djPops[i].relaxed
        /\ \A n \in DjNodes :
             Cardinality({i \in 1..Len(djPops) :
                            djPops[i].node = n /\ djPops[i].relaxed}) <= 1
        /\ \A fresh \in {DjFreshPops} :
             /\ \A i \in 1..Len(fresh) : distances[fresh[i].node] = fresh[i].dist
             /\ \A i \in 1..(Len(fresh) - 1) : fresh[i].dist <= fresh[i + 1].dist)
  /\ [][Len(djPops') > Len(djPops) =>
          LET e == djPops'[Len(djPops')]
          IN  /\ <<e.node, e.dist>> = pq[1]
              /\ e.known = (e.node \in DOMAIN distances)
              /\ e.known => e.best = distances[e.node]
              /\ DjStale(e) =>
                   /\ distances' = distances
                   /\ Len(pq') = Len(pq) - 1]_vars

\* dijkstra returned after it popped a stale entry: the node of the entry
\* had been popped with a smaller distance and its edges relaxed
C28_Witness ==
  /\ djPc = "done"
  /\ \E i, j \in 1..Len(djPops) :
       /\ i < j
       /\ djPops[i].node = djPops[j].node
       /\ djPops[i].relaxed
       /\ DjStale(djPops[j])
       /\ djGraph[djPops[j].node] # <<>>

\* the weight of every entry of the graph, added up
RECURSIVE DjTotalWeight(_, _)
DjTotalWeight(entries, i) ==
  IF i > Len(entries) THEN 0 ELSE entries[i][2] + DjTotalWeight(entries, i + 1)

\* the values of the function f over the set S, added up
RECURSIVE SumOver(_, _)
SumOver(f, S) ==
  IF S = {} THEN 0
  ELSE LET n == CHOOSE x \in S : TRUE
       IN  f[n] + SumOver(f, S \ {n})

\* more than the weight of any path without a repeated entry
DjFar == 1 + SumOver([n \in DjNodes |-> DjTotalWeight(djGraph[n], 1)], DjNodes)

\* what is left to do: the entries in the queue, twice the distances that
\* can still go down, and the return
DjVariant ==
  (IF djPc = "loop" THEN 1 ELSE 0)
  + Len(pq)
  + 2 * SumOver([n \in DjNodes |-> IF n \in DOMAIN distances
                                   THEN distances[n]
                                   ELSE DjFar],
                DjNodes)

\* the zero-weight self-loop on start: the entry [start, 0] of start
DjZeroSelfLoop ==
  \E i \in 1..Len(djGraph[djStart]) : djGraph[djStart][i] = <<djStart, 0>>

\* C29: dijkstra terminates with an empty queue on every graph with
\* non-negative weights: every pass and the return bring a quantity that is
\* never negative strictly down, and once it returned the queue is empty.
\* With a zero-weight self-loop on start the distance of start stays 0 and
\* no entry for start is in the queue after the first pop.
C29_Terminates ==
  /\ [](/\ djPc = "done" => pq = <<>>
        /\ DjVariant >= 0
        /\ DjZeroSelfLoop =>
             /\ distances[djStart] = 0
             /\ Len(djPops) > 0 => \A i \in 1..Len(pq) : pq[i][1] # djStart)
  /\ [][\A left \in {DjVariant'} : left < DjVariant]_vars

\* dijkstra returned for a graph with a zero-weight self-loop on start and a
\* zero-weight cycle through start and another node
C29_Witness ==
  /\ djPc = "done"
  /\ DjZeroSelfLoop
  /\ \E n \in DjNodes \ {djStart} :
       /\ 0 \in DjEdgeWeights(djStart, n)
       /\ 0 \in DjEdgeWeights(n, djStart)
  /\ Len(djPops) = 2

====
